---- MODULE Spec2Model ----
(***************************************************************************)
(* Model of the copper runtime configuration graph                         *)
(* (core/cu29_runtime/src/config.rs).                                      *)
(*                                                                         *)
(* CuConfig wraps a petgraph StableDiGraph<Node, Cnx, u32>.  The graph is  *)
(* modelled as petgraph stores it: a vector of nodes and a vector of       *)
(* edges, every node holding the heads of its outgoing and incoming        *)
(* adjacency lists and every edge the links to the next edge of each of    *)
(* the two lists it is on.  Node and edge indices are 0-based as in the    *)
(* code; the element with index i sits at position i + 1 of the sequence.  *)
(*                                                                         *)
(* An Option<T> is a sequence of length at most one: <<>> is None and      *)
(* <<x>> is Some(x).  A RON document is modelled by its structure: a       *)
(* record whose fields are the fields written in the text, so that a       *)
(* field skipped by the serializer is absent from the record.              *)
(***************************************************************************)
EXTENDS Integers, Sequences, FiniteSets, TLC

VARIABLES
    config,        \* the CuConfig being built through add_node / connect
    text,          \* Option: the RON document handed to the last load
    deserialized,  \* Option: the CuConfig returned by the last load
    result,        \* outcome of the last operation
    pool,          \* Option: a CuHostMemoryPool and the handles to its buffers
    pool_result,   \* outcome of the last pool operation
    stream,        \* a CuV4LStream
    kernel,        \* the V4L2 device the stream talks to
    held,          \* the handles the caller cloned from returned frames
    stream_pc,     \* "idle", or "dequeue" while next() waits in dequeue()
    stream_result, \* outcome of the last stream operation
    harness,       \* a task under test: its kind, state, output message, calls
    pipeline,      \* the declaration of the graph the runtime was built from
    sched,         \* the scheduler: phase, position in the plan, hook, tick
    instances,     \* the state of the task instance of every node
    slots,         \* the message slot of every edge
    recorded,      \* the errors recorded against the monitor
    journal,       \* the slots handed to the logger
    log,           \* the hook calls made so far, in order
    packet_data,   \* the bytes of the datagram handed to the Livox parser
    parse_result   \* what parse_frame made of it, None before the call

\* the variables of the configuration graph and of the host memory pool
configVars == <<config, text, deserialized, result>>
poolVars == <<pool, pool_result>>

\* everything but the configuration graph
streamVars == <<stream, kernel, held, stream_pc, stream_result>>
taskVars == <<harness>>
schedVars == <<pipeline, sched, instances, slots, recorded, journal, log>>
parserVars == <<packet_data, parse_result>>
runtimeVars == <<poolVars, streamVars, taskVars, schedVars, parserVars>>

vars == <<configVars, runtimeVars>>

-----------------------------------------------------------------------------
(* Bounds of the exploration *)

MaxNodes == 3
MaxEdges == 2

(* Inputs *)
NodeIds == {"src1", "src2", "sink"}
Msgs == {"msg1", "msg2"}

None == <<>>
Some(x) == <<x>>

\* EdgeIndex::end() / no edge: the terminator of petgraph's adjacency lists
End == 0 - 1

Outgoing == 1
Incoming == 2

Ok(v) == [tag |-> "Ok", val |-> v]
Err(m) == [tag |-> "Err", msg |-> m]
Panic(m) == [tag |-> "panic", msg |-> m]

-----------------------------------------------------------------------------
(* Node, Cnx *)

\* Node::new(id, ptype)
Node_new(id, ptype) == [id |-> id, type_ |-> Some(ptype), config |-> None]

Cnx(src, dst, msg, batch, store) ==
    [src |-> src, dst |-> dst, msg |-> msg, batch |-> batch, store |-> store]

-----------------------------------------------------------------------------
(* petgraph StableDiGraph, as used by CuConfig (no node or edge is ever    *)
(* removed, so there are no vacant slots and indices are positions).       *)

StableDiGraph_new == [nodes |-> <<>>, edges |-> <<>>]

node_count(g) == Len(g.nodes)
edge_count(g) == Len(g.edges)

\* node_indices() / edge_indices(): ascending index order
node_indices(g) == [i \in 1..Len(g.nodes) |-> i - 1]
edge_indices(g) == [i \in 1..Len(g.edges) |-> i - 1]

\* graph.add_node(weight): pushes the node, returns its index
graph_add_node(g, weight) ==
    [g EXCEPT !.nodes = Append(@, [weight |-> weight, next |-> <<End, End>>])]

\* graph_add_edge with the new edge's index taken one too high
graph_add_edge_off_by_one(g, a, b, weight) ==
    LET edge_idx == Len(g.edges) + 1
        an == g.nodes[a + 1]
        bn == g.nodes[b + 1]
        edge == [weight |-> weight,
                 node |-> <<a, b>>,
                 next |-> IF a = b THEN an.next
                          ELSE <<an.next[Outgoing], bn.next[Incoming]>>]
        nodes == IF a = b
                 THEN [g.nodes EXCEPT ![a + 1].next = <<edge_idx, edge_idx>>]
                 ELSE [g.nodes EXCEPT ![a + 1].next[Outgoing] = edge_idx,
                                      ![b + 1].next[Incoming] = edge_idx]
    IN  [nodes |-> nodes, edges |-> Append(g.edges, edge)]

\* graph.add_edge(a, b, weight): the new edge becomes the head of a's
\* outgoing list and of b's incoming list and links to the previous heads.
graph_add_edge(g, a, b, weight) ==
    LET edge_idx == Len(g.edges)
        an == g.nodes[a + 1]
        bn == g.nodes[b + 1]
        edge == [weight |-> weight,
                 node |-> <<a, b>>,
                 next |-> IF a = b THEN an.next
                          ELSE <<an.next[Outgoing], bn.next[Incoming]>>]
        nodes == IF a = b
                 THEN [g.nodes EXCEPT ![a + 1].next = <<edge_idx, edge_idx>>]
                 ELSE [g.nodes EXCEPT ![a + 1].next[Outgoing] = edge_idx,
                                      ![b + 1].next[Incoming] = edge_idx]
    IN  [nodes |-> nodes, edges |-> Append(g.edges, edge)]

\* The walk of one adjacency list from edge e on, in direction k
RECURSIVE edges_walk(_, _, _)
edges_walk(g, e, k) ==
    IF e = End \/ e >= Len(g.edges) THEN <<>>
    ELSE <<e>> \o edges_walk(g, g.edges[e + 1].next[k], k)

\* graph.edges_directed(a, dir).map(|edge| edge.id().index()): empty when a
\* is no node of the graph
edges_directed(g, a, k) ==
    IF a < 0 \/ a >= Len(g.nodes) THEN <<>>
    ELSE edges_walk(g, g.nodes[a + 1].next[k], k)

-----------------------------------------------------------------------------
(* CuConfig *)

\* impl Default for CuConfig
CuConfig_default ==
    [graph |-> StableDiGraph_new, monitor |-> None, logging |-> None]

\* add_node returning the number of nodes after the insertion
add_node_returns_count(c, node) ==
    [cfg |-> [c EXCEPT !.graph = graph_add_node(@, node)],
     ret |-> Len(c.graph.nodes) + 1]

\* CuConfig::add_node: [cfg, the NodeId returned]
add_node(c, node) ==
    [cfg |-> [c EXCEPT !.graph = graph_add_node(@, node)],
     ret |-> Len(c.graph.nodes)]

\* CuConfig::get_node: Option<&Node>
get_node(c, node_id) ==
    IF node_id >= 0 /\ node_id < Len(c.graph.nodes)
    THEN Some(c.graph.nodes[node_id + 1].weight)
    ELSE None

\* CuConfig::get_src_edges / get_dst_edges
get_src_edges(c, node_id) == edges_directed(c.graph, node_id, Outgoing)

get_dst_edges(c, node_id) == edges_directed(c.graph, node_id, Incoming)

\* CuConfig::get_edge_weight
get_edge_weight(c, index) ==
    IF index >= 0 /\ index < Len(c.graph.edges)
    THEN Some(c.graph.edges[index + 1].weight)
    ELSE None

\* connect_ext with the src and dst strings of the Cnx exchanged
connect_ext_swapped(c, source, target, msg_type, batch, store) ==
    IF get_node(c, source) = None THEN Panic("Source node not found")
    ELSE IF get_node(c, target) = None THEN Panic("Target node not found")
    ELSE Ok([c EXCEPT !.graph =
                graph_add_edge(@, source, target,
                               Cnx(get_node(c, target)[1].id,
                                   get_node(c, source)[1].id,
                                   msg_type, batch, store))])

\* CuConfig::connect_ext: the Cnx argument is evaluated first (both
\* get_node(..).expect(..)), then the edge is added.
connect_ext(c, source, target, msg_type, batch, store) ==
    IF get_node(c, source) = None THEN Panic("Source node not found")
    ELSE IF get_node(c, target) = None THEN Panic("Target node not found")
    ELSE Ok([c EXCEPT !.graph =
                graph_add_edge(@, source, target,
                               Cnx(get_node(c, source)[1].id,
                                   get_node(c, target)[1].id,
                                   msg_type, batch, store))])

\* CuConfig::connect
connect(c, source, target, msg_type) ==
    connect_ext(c, source, target, msg_type, None, None)

\* CuConfig::get_node_output_msg_type: find_map stops at the first node
\* carrying the id; the msg of edges[0] of its outgoing edge list
get_node_output_msg_type(c, node_id) ==
    LET hits == {i \in 0..(Len(c.graph.nodes) - 1) :
                    c.graph.nodes[i + 1].weight.id = node_id}
    IN  IF hits = {} THEN Ok(None)
        ELSE LET node_index == CHOOSE i \in hits : \A j \in hits : i <= j
                 edges == get_src_edges(c, node_index)
             IN  IF edges = <<>>
                 THEN Panic("A CuSrcTask is configured with no task connected to it.")
                 ELSE Ok(Some(get_edge_weight(c, edges[1])[1].msg))

\* CuConfig::get_node_input_msg_type: the same on the incoming edge list
get_node_input_msg_type(c, node_id) ==
    LET hits == {i \in 0..(Len(c.graph.nodes) - 1) :
                    c.graph.nodes[i + 1].weight.id = node_id}
    IN  IF hits = {} THEN Ok(None)
        ELSE LET node_index == CHOOSE i \in hits : \A j \in hits : i <= j
                 edges == get_dst_edges(c, node_index)
             IN  IF edges = <<>>
                 THEN Panic("A CuSinkTask is configured with no task connected to it.")
                 ELSE Ok(Some(get_edge_weight(c, edges[1])[1].msg))

-----------------------------------------------------------------------------
(* Logging validation *)

\* validate comparing with >= in place of >
validate_ge(logging) ==
    IF logging.section_size_mib # None
       /\ logging.slab_size_mib # None
       /\ logging.section_size_mib[1] >= logging.slab_size_mib[1]
    THEN Err("Section size cannot be larger than slab size")
    ELSE Ok(0)

\* LoggingConfig::validate
validate(logging) ==
    IF logging.section_size_mib # None
       /\ logging.slab_size_mib # None
       /\ logging.section_size_mib[1] > logging.slab_size_mib[1]
    THEN Err("Section size cannot be larger than slab size")
    ELSE Ok(0)

\* CuConfig::validate_logging_config
validate_logging_config(c) ==
    IF c.logging # None THEN validate(c.logging[1]) ELSE Ok(0)

-----------------------------------------------------------------------------
(* Value, the wrapper of ron::Value stored in a ComponentConfig.  A value  *)
(* is a record [variant, kind, n, s, b]: the variant, for a Number the     *)
(* ron::Number kind and the number (floats in tenths), for a String the    *)
(* string, for a Bool the boolean.  A host value is a record               *)
(* [type, n, s, b] of the same shape.                                      *)

IntKinds == {"I8", "I16", "I32", "I64", "U8", "U16", "U32", "U64"}
FloatKinds == {"F32", "F64"}

Number(kind, n) == [variant |-> "Number", kind |-> kind, n |-> n, s |-> "", b |-> FALSE]
String(s) == [variant |-> "String", kind |-> "", n |-> 0, s |-> s, b |-> FALSE]
Bool(b) == [variant |-> "Bool", kind |-> "", n |-> 0, s |-> "", b |-> b]

Host(type, n, s, b) == [type |-> type, n |-> n, s |-> s, b |-> b]

\* impl From<i32> for Value: Number(value.into())
Value_from_i32(value) == Number("I32", value)

\* impl From<u32>, From<u16>, From<u8> for Value: Number((value as u64).into())
Value_from_unsigned(value) == Number("U64", value)

\* impl From<f64> for Value
Value_from_f64(tenths) == Number("F64", tenths)

\* impl From<String> for Value
Value_from_String(value) == String(value)

\* the integer types a value is extracted into, with their width; the
\* numbers at hand all lie within the range of i32
IntTargets == {"u8", "i8", "u16", "i32"}

\* n as $target: the value is wrapped into the range of the target
as_int(n, target) ==
    IF target = "u8" THEN n % 256
    ELSE IF target = "i8" THEN ((n + 128) % 256) - 128
    ELSE IF target = "u16" THEN n % 65536
    ELSE n

\* the target type can represent n
Fits(n, target) ==
    IF target = "u8" THEN n >= 0 /\ n <= 255
    ELSE IF target = "i8" THEN n >= -128 /\ n <= 127
    ELSE IF target = "u16" THEN n >= 0 /\ n <= 65535
    ELSE TRUE

\* ron::Number::into_f64: the f64 of the number whether it is stored as a
\* float or as an integer
into_f64(num) == IF num.kind \in FloatKinds THEN num.n ELSE num.n * 10

\* impl From<Value> for f64
f64_from(value) ==
    IF value.variant = "Number"
    THEN Ok(Host("f64", into_f64(value), "", FALSE))
    ELSE Panic("Expected a Number variant")

\* impl From<Value> for bool
bool_from(value) ==
    IF value.variant = "Bool" THEN Ok(Host("bool", 0, "", value.b))
    ELSE Panic("Expected a Boolean variant")

\* impl_from_value_for_int!
int_from(target, value) ==
    IF value.variant = "Number"
    THEN IF value.kind \in IntKinds
         THEN Ok(Host(target, as_int(value.n, target), "", FALSE))
         ELSE Panic("Expected an integer Number variant")
    ELSE Panic("Expected a Number variant")

\* impl From<Value> for String
String_from(value) ==
    IF value.variant = "String" THEN Ok(Host("String", 0, value.s, FALSE))
    ELSE Panic("Expected a String variant")

HostTypes == IntTargets \cup {"f64", "bool", "String"}

\* T::from(value)
from_value(type, value) ==
    IF type = "bool" THEN bool_from(value)
    ELSE IF type = "f64" THEN f64_from(value)
    ELSE IF type = "String" THEN String_from(value)
    ELSE int_from(type, value)

\* Node::get_param::<T>(key): None without a config or without the key,
\* else Some(T::from(v.clone())), which panics on a mismatch
get_param(node, key, type) ==
    IF node.config = None THEN Ok(None)
    ELSE IF key \notin DOMAIN node.config[1] THEN Ok(None)
    ELSE LET r == from_value(type, node.config[1][key])
         IN  IF r.tag = "Ok" THEN Ok(Some(r.val)) ELSE r

\* Node::set_param(key, value)
set_param(node, key, value) ==
    LET pc == IF node.config = None THEN [k \in {} |-> 0] ELSE node.config[1]
    IN  [node EXCEPT !.config = Some((key :> value) @@ pc)]

\* the literal written for a value: a number is written in decimal, a float
\* with its fraction; the ron::Number kind is not written
Lit(lit, n, s, b) == [lit |-> lit, n |-> n, s |-> s, b |-> b]

ron_of_Value(v) ==
    IF v.variant = "Number"
    THEN IF v.kind \in FloatKinds THEN Lit("float", v.n, "", FALSE)
         ELSE Lit("int", v.n, "", FALSE)
    ELSE IF v.variant = "String" THEN Lit("string", 0, v.s, FALSE)
    ELSE Lit("bool", 0, "", v.b)

\* the value read from a literal: an integer becomes the Number of the
\* smallest kind that holds it (4 reads as U8, as test_monitor expects), a
\* float that f32 represents exactly, as those at hand, becomes F32
Value_of_ron(l) ==
    IF l.lit = "int"
    THEN Number(IF l.n < -32768 THEN "I32" ELSE IF l.n < -128 THEN "I16"
                ELSE IF l.n < 0 THEN "I8" ELSE IF l.n <= 255 THEN "U8"
                ELSE IF l.n <= 65535 THEN "U16" ELSE "U32", l.n)
    ELSE IF l.lit = "float" THEN Number("F32", l.n)
    ELSE IF l.lit = "string" THEN String(l.s)
    ELSE Bool(l.b)

\* #[derive(Serialize, Deserialize)] ComponentConfig(HashMap<String, Value>)
ron_of_ComponentConfig(pc) == [k \in DOMAIN pc |-> ron_of_Value(pc[k])]

ComponentConfig_of_ron(doc) == [k \in DOMAIN doc |-> Value_of_ron(doc[k])]

-----------------------------------------------------------------------------
(* Serialization.  CuConfig is written and read through                    *)
(* CuConfigRepresentation; the derived serde implementations decide which  *)
(* fields appear in the RON document.                                      *)

\* a document field that is written only when `present`
Field(present, key, value) ==
    IF present THEN key :> value ELSE [k \in {} |-> 0]

Has(doc, key) == key \in DOMAIN doc

\* an Option field read back.  The document holds <<>> for the text None and
\* <<x>> for the text x (IMPLICIT_SOME); an absent field reads as None.
OptField(doc, key) == IF Has(doc, key) THEN doc[key] ELSE None

default_as_true == TRUE

\* Node written without its config
ron_of_Node_no_config(n) ==
    ("id" :> n.id) @@ Field(n.type_ # None, "type", n.type_)

\* #[derive(Serialize)] Node: type and config are skipped when None
ron_of_Node(n) ==
    ("id" :> n.id)
      @@ Field(n.type_ # None, "type", n.type_)
      @@ (IF n.config # None
          THEN "config" :> Some(ron_of_ComponentConfig(n.config[1]))
          ELSE [k \in {} |-> 0])

\* #[derive(Deserialize)] Node
Node_of_ron(doc) ==
    [id |-> doc["id"],
     type_ |-> OptField(doc, "type"),
     config |-> IF OptField(doc, "config") = None THEN None
                ELSE Some(ComponentConfig_of_ron(doc["config"][1]))]

\* #[derive(Serialize)] Cnx: every field is written
ron_of_Cnx(c) ==
    ("src" :> c.src) @@ ("dst" :> c.dst) @@ ("msg" :> c.msg)
      @@ ("batch" :> c.batch) @@ ("store" :> c.store)

\* #[derive(Deserialize)] Cnx
Cnx_of_ron(doc) ==
    Cnx(doc["src"], doc["dst"], doc["msg"],
        OptField(doc, "batch"), OptField(doc, "store"))

\* #[derive(Serialize)] MonitorConfig: config is skipped when None
ron_of_MonitorConfig(m) ==
    ("type" :> m.type_) @@ Field(m.config # None, "config", m.config)

\* #[derive(Deserialize)] MonitorConfig
MonitorConfig_of_ron(doc) ==
    [type_ |-> doc["type"], config |-> OptField(doc, "config")]

\* LoggingConfig written with enable_task_logging skipped when it is false
ron_of_LoggingConfig_skip_false(l) ==
    Field(l.slab_size_mib # None, "slab_size_mib", l.slab_size_mib)
      @@ Field(l.section_size_mib # None, "section_size_mib",
               l.section_size_mib)
      @@ Field(l.enable_task_logging, "enable_task_logging",
               l.enable_task_logging)

\* #[derive(Serialize)] LoggingConfig: the sizes are skipped when None,
\* enable_task_logging is skipped when Clone::clone(&v) is true
ron_of_LoggingConfig(l) ==
    Field(l.slab_size_mib # None, "slab_size_mib", l.slab_size_mib)
      @@ Field(l.section_size_mib # None, "section_size_mib",
               l.section_size_mib)
      @@ Field(~l.enable_task_logging, "enable_task_logging",
               l.enable_task_logging)

\* LoggingConfig read with enable_task_logging defaulting to false
LoggingConfig_of_ron_default_false(doc) ==
    [slab_size_mib |-> OptField(doc, "slab_size_mib"),
     section_size_mib |-> OptField(doc, "section_size_mib"),
     enable_task_logging |->
         IF Has(doc, "enable_task_logging")
         THEN doc["enable_task_logging"] ELSE FALSE]

\* #[derive(Deserialize)] LoggingConfig: enable_task_logging defaults to
\* default_as_true()
LoggingConfig_of_ron(doc) ==
    [slab_size_mib |-> OptField(doc, "slab_size_mib"),
     section_size_mib |-> OptField(doc, "section_size_mib"),
     enable_task_logging |->
         IF Has(doc, "enable_task_logging")
         THEN doc["enable_task_logging"] ELSE default_as_true]

\* #[derive(Serialize)] CuConfigRepresentation: the RON document
ron_of_Representation(rep) ==
    ("tasks" :> [i \in 1..Len(rep.tasks) |-> ron_of_Node(rep.tasks[i])])
      @@ ("cnx" :> [i \in 1..Len(rep.cnx) |-> ron_of_Cnx(rep.cnx[i])])
      @@ ("monitor" :> IF rep.monitor = None THEN None
                       ELSE Some(ron_of_MonitorConfig(rep.monitor[1])))
      @@ ("logging" :> IF rep.logging = None THEN None
                       ELSE Some(ron_of_LoggingConfig(rep.logging[1])))

\* ron::error::SpannedError: what the parser found and the line and column
\* at which it stopped
SpannedError(code, position) == [code |-> code, position |-> position]

\* CuConfigRepresentation::deserialize: a text that departs from the
\* grammar is a document that records, under syntax_error, what the parser
\* reports for it; tasks and cnx are required, and their absence is
\* reported where the text ends
Representation_of_ron(doc) ==
    IF Has(doc, "syntax_error") THEN Err(doc["syntax_error"])
    ELSE IF ~Has(doc, "tasks")
    THEN Err(SpannedError("missing field tasks", OptField(doc, "end")))
    ELSE IF ~Has(doc, "cnx")
    THEN Err(SpannedError("missing field cnx", OptField(doc, "end")))
    ELSE Ok([tasks |-> [i \in 1..Len(doc["tasks"]) |->
                            Node_of_ron(doc["tasks"][i])],
             cnx |-> [i \in 1..Len(doc["cnx"]) |->
                          Cnx_of_ron(doc["cnx"][i])],
             monitor |-> IF OptField(doc, "monitor") = None THEN None
                         ELSE Some(MonitorConfig_of_ron(doc["monitor"][1])),
             logging |-> IF OptField(doc, "logging") = None THEN None
                         ELSE Some(LoggingConfig_of_ron(doc["logging"][1]))])

\* impl Serialize for CuConfig: node weights in node-index order, edge
\* weights in edge-index order
serialize(c) ==
    [tasks |-> [i \in 1..Len(c.graph.nodes) |-> c.graph.nodes[i].weight],
     cnx |-> [i \in 1..Len(c.graph.edges) |-> c.graph.edges[i].weight],
     monitor |-> c.monitor,
     logging |-> c.logging]

\* graph.node_indices().find(|i| graph[*i].id == id): the first node
\* carrying the id, None when there is none
find_node(c, id) ==
    LET hits == {i \in 0..(Len(c.graph.nodes) - 1) :
                    c.graph.nodes[i + 1].weight.id = id}
    IN  IF hits = {} THEN None
        ELSE Some(CHOOSE i \in hits : \A j \in hits : i <= j)

\* for task in representation.tasks { cuconfig.add_node(task); }
RECURSIVE add_tasks(_, _)
add_tasks(c, tasks) ==
    IF tasks = <<>> THEN c
    ELSE add_tasks(add_node(c, Head(tasks)).cfg, Tail(tasks))

\* add_cnx walking the connections from the last to the first
RECURSIVE add_cnx_rev(_, _)
add_cnx_rev(c, cnx) ==
    IF cnx = <<>> THEN Ok(c)
    ELSE LET x == cnx[Len(cnx)]
             src == find_node(c, x.src)
             dst == find_node(c, x.dst)
         IN  IF src = None THEN Panic("Source node not found")
             ELSE IF dst = None THEN Panic("Destination node not found")
             ELSE LET r == connect_ext(c, src[1], dst[1],
                                       x.msg, x.batch, x.store)
                  IN  IF r.tag = "Ok"
                      THEN add_cnx_rev(r.val, SubSeq(cnx, 1, Len(cnx) - 1))
                      ELSE r

\* for c in representation.cnx { find src, find dst, connect_ext }
RECURSIVE add_cnx(_, _)
add_cnx(c, cnx) ==
    IF cnx = <<>> THEN Ok(c)
    ELSE LET x == Head(cnx)
             src == find_node(c, x.src)
             dst == find_node(c, x.dst)
         IN  IF src = None THEN Panic("Source node not found")
             ELSE IF dst = None THEN Panic("Destination node not found")
             ELSE LET r == connect_ext(c, src[1], dst[1],
                                       x.msg, x.batch, x.store)
                  IN  IF r.tag = "Ok" THEN add_cnx(r.val, Tail(cnx)) ELSE r

\* the connections regrouped by the position of their source task
RECURSIVE cnx_by_task(_, _, _)
cnx_by_task(tasks, cnx, i) ==
    IF i > Len(tasks)
    THEN SelectSeq(cnx, LAMBDA x : \A j \in 1..Len(tasks) : tasks[j].id # x.src)
    ELSE SelectSeq(cnx, LAMBDA x : /\ x.src = tasks[i].id
                                   /\ \A j \in 1..(i - 1) : tasks[j].id # x.src)
           \o cnx_by_task(tasks, cnx, i + 1)

\* deserialize creating the edges task by task
deserialize_by_task(doc) ==
    LET representation == Representation_of_ron(doc)
    IN  IF representation.tag # "Ok" THEN representation
        ELSE LET rep == representation.val
                 r == add_cnx(add_tasks(CuConfig_default, rep.tasks),
                              cnx_by_task(rep.tasks, rep.cnx, 1))
             IN  IF r.tag # "Ok" THEN r
                 ELSE Ok([r.val EXCEPT !.monitor = rep.monitor,
                                       !.logging = rep.logging])

\* impl Deserialize for CuConfig
deserialize(doc) ==
    LET representation == Representation_of_ron(doc)
    IN  IF representation.tag # "Ok" THEN representation
        ELSE LET rep == representation.val
                 r == add_cnx(add_tasks(CuConfig_default, rep.tasks), rep.cnx)
             IN  IF r.tag # "Ok" THEN r
                 ELSE Ok([r.val EXCEPT !.monitor = rep.monitor,
                                       !.logging = rep.logging])

\* CuConfig::serialize_ron
serialize_ron(c) == ron_of_Representation(serialize(c))

\* deserialize_ron panicking with the code but without the position
deserialize_ron_no_position(ron) ==
    LET r == deserialize(ron)
    IN  IF r.tag = "Err"
        THEN Panic([text |-> "Syntax Error in config",
                    code |-> r.msg.code, position |-> None])
        ELSE r

\* CuConfig::deserialize_ron: a parse error becomes the panic
\* "Syntax Error in config: {e.code} at position {e.position}"
deserialize_ron(ron) ==
    LET r == deserialize(ron)
    IN  IF r.tag = "Err"
        THEN Panic([text |-> "Syntax Error in config",
                    code |-> r.msg.code, position |-> r.msg.position])
        ELSE r

\* read_configuration_str
read_configuration_str(config_content) ==
    LET cuconfig == deserialize_ron(config_content)
    IN  IF cuconfig.tag # "Ok" THEN cuconfig
        ELSE IF validate_logging_config(cuconfig.val).tag # "Ok"
             THEN validate_logging_config(cuconfig.val)
             ELSE Ok(cuconfig.val)

-----------------------------------------------------------------------------
(* The RON documents handed to the load operations *)

\* (id: .., type: "a")
NodeDocs == {("id" :> id) @@ ("type" :> Some("a")) : id \in NodeIds}

\* (src: .., dst: .., msg: ..)
CnxDocs ==
    {("src" :> s) @@ ("dst" :> d) @@ ("msg" :> m) :
        s \in NodeIds, d \in NodeIds, m \in Msgs}

SeqsUpTo(S, n) == UNION {[1..k -> S] : k \in 0..n}

\* monitor: (type: "ExampleMonitor")
MonitorDocs == {"type" :> "ExampleMonitor"}

\* logging: (slab_size_mib: .., section_size_mib: .., enable_task_logging: ..)
SizeDocs == {None, Some(100), Some(1024)}

LoggingDocs ==
    {Field(slab # None, "slab_size_mib", slab)
       @@ Field(section # None, "section_size_mib", section)
       @@ Field(~enable, "enable_task_logging", enable) :
        slab \in SizeDocs, section \in SizeDocs, enable \in BOOLEAN}

ConfigDoc(tasks, cnx, monitor, logging) ==
    ("tasks" :> tasks) @@ ("cnx" :> cnx)
      @@ Field(monitor # None, "monitor", monitor)
      @@ Field(logging # None, "logging", logging)

\* documents that describe a graph, as in
\* test_deserialization_edge_id_assignment, without top-level settings or
\* with both a monitor and a logging section
GraphSettings ==
    {<<None, None>>,
     <<Some("type" :> "ExampleMonitor"),
       Some(("slab_size_mib" :> Some(1024)) @@ ("section_size_mib" :> Some(100))
              @@ ("enable_task_logging" :> FALSE))>>}

\* the task lists and connection lists of those documents
TaskDocSeqs == SeqsUpTo(NodeDocs, MaxNodes)
CnxDocSeqs == SeqsUpTo(CnxDocs, MaxEdges)

\* documents that carry top-level settings, as in test_monitor,
\* test_logging_parameters and test_validate_logging_config
SettingsDocs ==
    {ConfigDoc(tasks, <<>>, monitor, logging) :
        tasks \in SeqsUpTo(NodeDocs, 1),
        monitor \in {None} \cup {Some(m) : m \in MonitorDocs},
        logging \in {None} \cup {Some(l) : l \in LoggingDocs}}

-----------------------------------------------------------------------------
\* let config = CuConfig::default();
ConfigInit ==
    /\ config = CuConfig_default
    /\ text = None
    /\ deserialized = None
    /\ result = [op |-> "default", status |-> Ok(0)]

\* no memory pool has been created
NoPool == pool = None /\ pool_result = None

\* Building and loading configurations: nothing else is constructed.
\* no stream has been opened
NoStream ==
    /\ stream = None
    /\ kernel = None
    /\ held = None
    /\ stream_pc = "idle"
    /\ stream_result = None

\* no task is under test
NoHarness == harness = None

\* no runtime has been built
NoRuntime ==
    /\ pipeline = None
    /\ sched = None
    /\ instances = None
    /\ slots = None
    /\ recorded = {}
    /\ journal = <<>>
    /\ log = <<>>

\* no datagram has been received
NoPacket == packet_data = <<>> /\ parse_result = None

Init == ConfigInit /\ NoPool /\ NoStream /\ NoHarness /\ NoRuntime /\ NoPacket

AddNode(id) ==
    /\ Len(config.graph.nodes) < MaxNodes
    /\ \E r \in {add_node(config, Node_new(id, "a"))} :
           /\ config' = r.cfg
           /\ result' = [op |-> "add_node", status |-> Ok(r.ret)]
    /\ text' = None
    /\ deserialized' = None

Connect(source, target, msg) ==
    /\ Len(config.graph.edges) < MaxEdges
    /\ \E r \in {connect(config, source, target, msg)} :
           /\ config' = IF r.tag = "Ok" THEN r.val ELSE config
           /\ result' = [op |-> "connect",
                         status |-> IF r.tag = "Ok" THEN Ok(0) ELSE r]
    /\ text' = None
    /\ deserialized' = None

\* connect_ext with an explicit batch and store
ConnectExt(source, target, msg, batch, store) ==
    /\ Len(config.graph.edges) < MaxEdges
    /\ \E r \in {connect_ext(config, source, target, msg, batch, store)} :
           /\ config' = IF r.tag = "Ok" THEN r.val ELSE config
           /\ result' = [op |-> "connect_ext",
                         status |-> IF r.tag = "Ok" THEN Ok(0) ELSE r]
    /\ text' = None
    /\ deserialized' = None

\* let serialized = config.serialize_ron();
\* let deserialized = CuConfig::deserialize_ron(&serialized);
SerializeDeserialize ==
    /\ \E serialized \in {serialize_ron(config)} :
         \E r \in {deserialize_ron(serialized)} :
           /\ text' = Some(serialized)
           /\ deserialized' = IF r.tag = "Ok" THEN Some(r.val) ELSE None
           /\ result' = [op |-> "serialize_deserialize",
                         status |-> IF r.tag = "Ok" THEN Ok(0) ELSE r]
    /\ UNCHANGED config

\* the same two calls on the configuration that was loaded
ReserializeLoaded ==
    /\ deserialized # None
    /\ result.op # "reserialize"
    /\ \E serialized \in {serialize_ron(deserialized[1])} :
         \E r \in {deserialize_ron(serialized)} :
           /\ text' = Some(serialized)
           /\ deserialized' = IF r.tag = "Ok" THEN Some(r.val) ELSE None
           /\ result' = [op |-> "reserialize",
                         status |-> IF r.tag = "Ok" THEN Ok(0) ELSE r]
    /\ UNCHANGED config

\* The load operations are associated functions: their result does not
\* depend on an existing CuConfig, so a document from outside is loaded in
\* the state in which nothing has been built or loaded yet.
Fresh == config = CuConfig_default /\ text = None /\ result.op = "default"

\* CuConfig::deserialize_ron(txt) on a document from outside
DeserializeRon(doc) ==
    /\ \E r \in {deserialize_ron(doc)} :
           /\ text' = Some(doc)
           /\ deserialized' = IF r.tag = "Ok" THEN Some(r.val) ELSE None
           /\ result' = [op |-> "deserialize_ron",
                         status |-> IF r.tag = "Ok" THEN Ok(0) ELSE r]
    /\ UNCHANGED config

\* read_configuration_str(txt) on a document from outside
ReadConfigurationStr(doc) ==
    /\ \E r \in {read_configuration_str(doc)} :
           /\ text' = Some(doc)
           /\ deserialized' = IF r.tag = "Ok" THEN Some(r.val) ELSE None
           /\ result' = [op |-> "read_configuration_str",
                         status |-> IF r.tag = "Ok" THEN Ok(0) ELSE r]
    /\ UNCHANGED config

\* the NodeId arguments tried: every node of the graph and the first index
\* that is no node
NodeIdArgs == 0..Len(config.graph.nodes)

Next ==
    \/ (\E id \in NodeIds : AddNode(id)) /\ UNCHANGED runtimeVars
    \/ (\E s \in NodeIdArgs, t \in NodeIdArgs, m \in Msgs : Connect(s, t, m))
          /\ UNCHANGED runtimeVars
    \/ (\E s \in NodeIdArgs, t \in NodeIdArgs, m \in Msgs :
          ConnectExt(s, t, m, Some(2), Some(FALSE))) /\ UNCHANGED runtimeVars
    \/ SerializeDeserialize /\ UNCHANGED runtimeVars
    \/ ReserializeLoaded /\ UNCHANGED runtimeVars
    \/ Fresh /\ (\E doc \in SettingsDocs : DeserializeRon(doc))
          /\ UNCHANGED runtimeVars
    \/ Fresh /\ (\E tasks \in TaskDocSeqs, cnx \in CnxDocSeqs, st \in GraphSettings :
                  DeserializeRon(ConfigDoc(tasks, cnx, st[1], st[2])))
          /\ UNCHANGED runtimeVars
    \/ Fresh /\ (\E doc \in SettingsDocs : ReadConfigurationStr(doc))
          /\ UNCHANGED runtimeVars
    \/ Fresh /\ (\E tasks \in TaskDocSeqs, cnx \in CnxDocSeqs, st \in GraphSettings :
                  ReadConfigurationStr(ConfigDoc(tasks, cnx, st[1], st[2])))
          /\ UNCHANGED runtimeVars

Spec == Init /\ [][Next]_vars

-----------------------------------------------------------------------------
(* Input binding of a task with several incoming edges: the runtime orders *)
(* the inputs by ascending edge-id (specification 4.4).                    *)

RECURSIVE Ascending(_)
Ascending(S) ==
    IF S = {} THEN <<>>
    ELSE LET m == CHOOSE x \in S : \A y \in S : x <= y
         IN  <<m>> \o Ascending(S \ {m})

Range(f) == {f[i] : i \in DOMAIN f}

\* the edge-ids of the k-tuple handed to process of node_id, in tuple order
task_inputs(c, node_id) == Ascending(Range(get_dst_edges(c, node_id)))

-----------------------------------------------------------------------------
(* Properties *)

\* the configurations at hand: the one being built and the one loaded
Configs == {config} \cup (IF deserialized # None THEN {deserialized[1]} ELSE {})

NodesOf(c) == 0..(Len(c.graph.nodes) - 1)
EdgesOf(c) == 0..(Len(c.graph.edges) - 1)

\* the edges created with v as source / as destination
OutEdges(c, v) == {k \in EdgesOf(c) : c.graph.edges[k + 1].node[1] = v}
InEdges(c, v) == {k \in EdgesOf(c) : c.graph.edges[k + 1].node[2] = v}

UniqueIds(c) ==
    \A i \in NodesOf(c), j \in NodesOf(c) :
        c.graph.nodes[i + 1].weight.id = c.graph.nodes[j + 1].weight.id => i = j

Loaded ==
    /\ result.op \in {"deserialize_ron", "read_configuration_str"}
    /\ result.status.tag = "Ok"

\* test_deserialization_edge_id_assignment
ExampleDoc ==
    ConfigDoc(<<("id" :> "src1") @@ ("type" :> Some("a")),
                ("id" :> "src2") @@ ("type" :> Some("a")),
                ("id" :> "sink") @@ ("type" :> Some("a"))>>,
              <<("src" :> "src2") @@ ("dst" :> "sink") @@ ("msg" :> "msg1"),
                ("src" :> "src1") @@ ("dst" :> "sink") @@ ("msg" :> "msg2")>>,
              None, None)

\* C1: after a load, the node at position i of `tasks` has node-id i and the
\* connection at position k of `cnx` has edge-id k (both counted from 0): the
\* edge with that id carries the connection's src, dst and msg and is
\* reported among the outgoing edges of a node named src and the incoming
\* edges of a node named dst.  With tasks [src1, src2, sink] and cnx
\* [src2->sink, src1->sink], src1's outgoing edge has id 1 and src2's id 0.
C1_EdgeIdsByCnxPosition ==
    Loaded =>
        LET d == deserialized[1]
            tasks == text[1]["tasks"]
            cnx == text[1]["cnx"]
        IN  /\ node_count(d.graph) = Len(tasks)
            /\ \A i \in 1..Len(tasks) :
                   /\ get_node(d, i - 1) # None
                   /\ get_node(d, i - 1)[1].id = tasks[i]["id"]
            /\ edge_count(d.graph) = Len(cnx)
            /\ \A k \in 1..Len(cnx) :
                   /\ get_edge_weight(d, k - 1) # None
                   /\ get_edge_weight(d, k - 1)[1].src = cnx[k]["src"]
                   /\ get_edge_weight(d, k - 1)[1].dst = cnx[k]["dst"]
                   /\ get_edge_weight(d, k - 1)[1].msg = cnx[k]["msg"]
                   /\ \E v \in NodesOf(d) :
                          /\ get_node(d, v)[1].id = cnx[k]["src"]
                          /\ (k - 1) \in Range(get_src_edges(d, v))
                   /\ \E v \in NodesOf(d) :
                          /\ get_node(d, v)[1].id = cnx[k]["dst"]
                          /\ (k - 1) \in Range(get_dst_edges(d, v))
            /\ text[1] = ExampleDoc =>
                   /\ get_src_edges(d, 0) = <<1>>
                   /\ get_src_edges(d, 1) = <<0>>

C1_Witness ==
    /\ Loaded
    /\ text = Some(ExampleDoc)
    /\ get_node(deserialized[1], 0)[1].id = "src1"
    /\ Len(get_src_edges(deserialized[1], 0)) = 1

\* C2 (as claimed): for every node v, get_src_edges(v) lists v's outgoing
\* edge-ids in the order the connections were created (ascending edge-id) and
\* get_dst_edges(v) lists v's incoming edge-ids in that order.
C2_InsertionOrder ==
    \A c \in Configs : \A v \in NodesOf(c) :
        /\ get_src_edges(c, v) = Ascending(OutEdges(c, v))
        /\ get_dst_edges(c, v) = Ascending(InEdges(c, v))

\* the edge-ids reported through the nodes' edge lists
ReportedSrc(c) == UNION {Range(get_src_edges(c, v)) : v \in NodesOf(c)}
ReportedDst(c) == UNION {Range(get_dst_edges(c, v)) : v \in NodesOf(c)}

C3_Dense ==
    \A c \in Configs :
        /\ ReportedSrc(c) = 0..(edge_count(c.graph) - 1)
        /\ ReportedDst(c) = 0..(edge_count(c.graph) - 1)
        /\ \A k \in EdgesOf(c) :
               /\ k \in Range(get_src_edges(c, c.graph.edges[k + 1].node[1]))
               /\ k \in Range(get_dst_edges(c, c.graph.edges[k + 1].node[2]))

C3_Stable ==
    LET m == edge_count(config.graph)
    IN  /\ edge_count(config'.graph) \in {m, m + 1}
        /\ \A k \in 0..(m - 1) :
               /\ get_edge_weight(config', k) = get_edge_weight(config, k)
               /\ config'.graph.edges[k + 1].node = config.graph.edges[k + 1].node
        /\ (result'.op \in {"connect", "connect_ext"}
              /\ result'.status.tag = "Ok") =>
               /\ edge_count(config'.graph) = m + 1
               /\ ReportedSrc(config') = ReportedSrc(config) \cup {m}
               /\ ReportedDst(config') = ReportedDst(config) \cup {m}
        /\ result'.op = "add_node" =>
               /\ edge_count(config'.graph) = m
               /\ ReportedSrc(config') = ReportedSrc(config)

\* C3: the edge-ids of a graph with m edges are exactly 0..m-1; a successful
\* connect or connect_ext gives the new edge the id m (the number of edges
\* created before it); no later add_node or connect changes the id, the
\* endpoints or the Cnx of an existing edge.
C3_EdgeIdsDense == []C3_Dense /\ [][C3_Stable]_vars

C3_Witness ==
    /\ result.op = "connect_ext"
    /\ result.status.tag = "Ok"
    /\ edge_count(config.graph) = 2
    /\ ReportedSrc(config) = {0, 1}

StructEq(a, b) ==
    /\ node_count(a.graph) = node_count(b.graph)
    /\ edge_count(a.graph) = edge_count(b.graph)
    /\ \A k \in EdgesOf(a) :
           /\ a.graph.edges[k + 1].node = b.graph.edges[k + 1].node
           /\ get_edge_weight(a, k)[1].msg = get_edge_weight(b, k)[1].msg
    /\ a.monitor = b.monitor
    /\ a.logging = b.logging

C4_Step ==
    /\ (result'.op = "serialize_deserialize" /\ UniqueIds(config)) =>
           /\ deserialized' # None
           /\ StructEq(config, deserialized'[1])
    /\ (result'.op = "reserialize" /\ deserialized # None
          /\ UniqueIds(deserialized[1])) =>
           /\ deserialized' # None
           /\ StructEq(deserialized[1], deserialized'[1])

\* C4: for a graph G whose node ids are unique, deserialize_ron(
\* serialize_ron(G)) has the same node count, the same edge count, for every
\* edge-id the same endpoints and msg, and the same monitor and logging.
C4_RoundTrip == [][C4_Step]_vars

C4_Witness ==
    /\ result.op = "reserialize"
    /\ result.status.tag = "Ok"
    /\ deserialized # None
    /\ UniqueIds(deserialized[1])
    /\ node_count(deserialized[1].graph) = 3
    /\ edge_count(deserialized[1].graph) = 2
    /\ deserialized[1].monitor # None
    /\ deserialized[1].logging # None
    /\ ~deserialized[1].logging[1].enable_task_logging

\* the text has a logging section with both sizes and section > slab
SectionExceedsSlab(doc) ==
    /\ OptField(doc, "logging") # None
    /\ OptField(doc["logging"][1], "slab_size_mib") # None
    /\ OptField(doc["logging"][1], "section_size_mib") # None
    /\ doc["logging"][1]["section_size_mib"][1]
         > doc["logging"][1]["slab_size_mib"][1]

\* C5: read_configuration_str returns an error exactly for the texts whose
\* logging section sets both sizes with section_size_mib > slab_size_mib (for
\* texts that deserialize_ron loads); it returns no configuration then, and a
\* configuration it returns has section_size_mib <= slab_size_mib whenever
\* both are set.
C5_LoggingSizeRule ==
    (result.op = "read_configuration_str" /\ result.status.tag # "panic") =>
        /\ result.status.tag = "Err" <=> SectionExceedsSlab(text[1])
        /\ result.status.tag = "Err" => deserialized = None
        /\ result.status.tag = "Ok" =>
               /\ deserialized # None
               /\ \A l \in Range(deserialized[1].logging) :
                      (l.section_size_mib # None /\ l.slab_size_mib # None)
                          => l.section_size_mib[1] <= l.slab_size_mib[1]

C5_Witness ==
    /\ result.op = "read_configuration_str"
    /\ result.status.tag = "Err"
    /\ SectionExceedsSlab(text[1])

\* v reaches w along one or more edges
RECURSIVE ReachesIn(_, _, _, _)
ReachesIn(c, v, w, n) ==
    /\ n > 0
    /\ \E k \in OutEdges(c, v) :
           \/ c.graph.edges[k + 1].node[2] = w
           \/ ReachesIn(c, c.graph.edges[k + 1].node[2], w, n - 1)

Acyclic(c) == \A v \in NodesOf(c) : ~ReachesIn(c, v, v, Len(c.graph.nodes))

\* C6 (as claimed): every configuration returned by deserialize_ron or
\* read_configuration_str is acyclic.
C6_LoadedAcyclic == Loaded => Acyclic(deserialized[1])

\* C7 (as claimed): no two distinct nodes of a graph share an id.
C7_UniqueNodeIds == \A c \in Configs : UniqueIds(c)

EndpointsExist(c) ==
    \A k \in EdgesOf(c) :
        LET e == c.graph.edges[k + 1]
        IN  /\ get_node(c, e.node[1]) # None
            /\ get_node(c, e.node[2]) # None
            /\ e.weight.src = get_node(c, e.node[1])[1].id
            /\ e.weight.dst = get_node(c, e.node[2])[1].id

\* the text names, in some connection, a task that it does not declare
NamesUnknownTask(doc) ==
    \E k \in DOMAIN doc["cnx"] :
        \E end \in {"src", "dst"} :
            \A i \in DOMAIN doc["tasks"] :
                doc["tasks"][i]["id"] # doc["cnx"][k][end]

C8_State ==
    /\ \A c \in Configs : EndpointsExist(c)
    /\ result.op \in {"deserialize_ron", "read_configuration_str"} =>
           /\ result.status.tag = "panic" <=> NamesUnknownTask(text[1])
           /\ result.status.tag = "panic" => deserialized = None

C8_Step ==
    /\ (result'.op \in {"connect", "connect_ext"}
          /\ result'.status.tag = "panic") => config' = config
    /\ (result'.op \in {"connect", "connect_ext"}
          /\ result'.status.tag = "Ok") =>
           edge_count(config'.graph) = edge_count(config.graph) + 1

\* C8: the endpoints of every edge are nodes of the graph and the edge's src
\* and dst strings are the ids of those nodes; connect / connect_ext with an
\* index that is no node panics and leaves the graph as it was; a text is
\* refused with a panic, and yields no configuration, exactly when one of its
\* connections names a task the text does not declare.
C8_EdgesReferToNodes == []C8_State /\ [][C8_Step]_vars

C8_Witness ==
    /\ result.op = "deserialize_ron"
    /\ result.status.tag = "panic"
    /\ NamesUnknownTask(text[1])
    /\ Len(text[1]["tasks"]) = 2

MinOf(S) == CHOOSE x \in S : \A y \in S : x <= y

\* what C9 expects of a getter's result r for the task id, Edges being the
\* node's edges in the getter's direction
FirstEdgeMsg(c, id, r, Edges) ==
    IF find_node(c, id) = None THEN r = Ok(None)
    ELSE IF Edges = {} THEN r.tag = "panic"
         ELSE r = Ok(Some(get_edge_weight(c, MinOf(Edges))[1].msg))

\* C9 (as claimed): get_node_output_msg_type(id) is the msg of the node's
\* outgoing edge with the lowest edge-id, get_node_input_msg_type(id) that of
\* its incoming edge with the lowest edge-id; each panics when the node has
\* no edge in that direction and is None when no node has the id.
C9_FirstEdgeMsgType ==
    \A c \in Configs : \A id \in NodeIds :
        /\ FirstEdgeMsg(c, id, get_node_output_msg_type(c, id),
                        IF find_node(c, id) = None THEN {}
                        ELSE OutEdges(c, find_node(c, id)[1]))
        /\ FirstEdgeMsg(c, id, get_node_input_msg_type(c, id),
                        IF find_node(c, id) = None THEN {}
                        ELSE InEdges(c, find_node(c, id)[1]))

\* the positions of the connections of the text whose dst is the task id
RECURSIVE CnxInto(_, _, _)
CnxInto(cnx, id, k) ==
    IF k > Len(cnx) THEN <<>>
    ELSE (IF cnx[k]["dst"] = id THEN <<k - 1>> ELSE <<>>)
           \o CnxInto(cnx, id, k + 1)

\* C10: the inputs of a node with two or more incoming edges are bound in
\* ascending edge-id; after a load (unique task ids) that is the order in
\* which the connections into the task are declared in the text, whatever
\* the node-ids of the upstream tasks.  With tasks [src1, src2, sink] and
\* cnx [src2->sink, src1->sink] the sink's first input is src2's message and
\* its second src1's.
C10_InputsByEdgeId ==
    /\ \A c \in Configs : \A v \in NodesOf(c) :
           Cardinality(InEdges(c, v)) >= 2 =>
               /\ Range(task_inputs(c, v)) = InEdges(c, v)
               /\ \A i \in 1..(Len(task_inputs(c, v)) - 1) :
                      task_inputs(c, v)[i] < task_inputs(c, v)[i + 1]
    /\ (Loaded /\ UniqueIds(deserialized[1])) =>
           \A v \in NodesOf(deserialized[1]) :
               task_inputs(deserialized[1], v)
                   = CnxInto(text[1]["cnx"], get_node(deserialized[1], v)[1].id, 1)
    /\ (Loaded /\ text[1] = ExampleDoc) =>
           [i \in 1..2 |->
               get_edge_weight(deserialized[1],
                               task_inputs(deserialized[1], 2)[i])[1].src]
             = <<"src2", "src1">>

C10_Witness ==
    /\ Loaded
    /\ text = Some(ExampleDoc)
    /\ Len(task_inputs(deserialized[1], 2)) = 2

-----------------------------------------------------------------------------
(* Host memory pool (specification 4.3).  CuHostMemoryPool::new allocates  *)
(* `capacity` buffers up front and puts them on the free list; allocate    *)
(* pops one and returns a reference-counted handle to it, or None; when    *)
(* the last handle to a buffer is dropped the buffer is pushed back.       *)
(* Buffers are numbered from 0; handles[b] counts the live handles to b.   *)

MaxCapacity == 4
MaxHandles == 2

CuHostMemoryPool_new(buf_size, capacity, alignment) ==
    [buf_size |-> buf_size,
     capacity |-> capacity,
     alignment |-> alignment,
     free |-> [i \in 1..capacity |-> i - 1],
     handles |-> [b \in 0..(capacity - 1) |-> 0]]

\* a pool that gives up while a buffer is still free
allocate_off_by_one(p) ==
    IF Len(p.free) <= 1 THEN [pool |-> p, ret |-> None]
    ELSE LET b == p.free[Len(p.free)]
         IN  [pool |-> [p EXCEPT !.free = SubSeq(@, 1, Len(@) - 1),
                                 !.handles[b] = 1],
              ret |-> Some(b)]

\* CuHostMemoryPool::allocate(&pool) -> Option<CuBufferHandle>
allocate(p) ==
    IF p.free = <<>> THEN [pool |-> p, ret |-> None]
    ELSE LET b == p.free[Len(p.free)]
         IN  [pool |-> [p EXCEPT !.free = SubSeq(@, 1, Len(@) - 1),
                                 !.handles[b] = 1],
              ret |-> Some(b)]

\* CuBufferHandle::clone
handle_clone(p, b) == [p EXCEPT !.handles[b] = @ + 1]

\* a drop that frees the buffer while other handles are live
handle_drop_any(p, b) ==
    [p EXCEPT !.handles[b] = @ - 1, !.free = Append(@, b)]

\* drop of a CuBufferHandle
handle_drop(p, b) ==
    IF p.handles[b] = 1
    THEN [p EXCEPT !.handles[b] = 0, !.free = Append(@, b)]
    ELSE [p EXCEPT !.handles[b] = @ - 1]

\* the buffer sizes and alignment do not influence the bookkeeping
BufSize == 4096
PageSize == 4096

PoolInit ==
    /\ ConfigInit
    /\ \E capacity \in 1..MaxCapacity :
           pool = Some(CuHostMemoryPool_new(BufSize, capacity, PageSize))
    /\ pool_result = [op |-> "new", ret |-> None, after_none |-> FALSE]
    /\ NoStream
    /\ NoHarness
    /\ NoRuntime
    /\ NoPacket

Allocate ==
    /\ \E r \in {allocate(pool[1])} :
           /\ pool' = Some(r.pool)
           /\ pool_result' = [op |-> "allocate", ret |-> r.ret,
                              after_none |-> pool_result.after_none \/ r.ret = None]

HandleClone(b) ==
    /\ pool[1].handles[b] \in 1..(MaxHandles - 1)
    /\ pool' = Some(handle_clone(pool[1], b))
    /\ pool_result' = [pool_result EXCEPT !.op = "clone", !.ret = Some(b)]

HandleDrop(b) ==
    /\ pool[1].handles[b] > 0
    /\ pool' = Some(handle_drop(pool[1], b))
    /\ pool_result' = [pool_result EXCEPT !.op = "drop", !.ret = Some(b)]

Buffers == DOMAIN pool[1].handles

notPoolVars == <<configVars, streamVars, taskVars, schedVars, parserVars>>

PoolNext ==
    \/ Allocate /\ UNCHANGED notPoolVars
    \/ (\E b \in Buffers : HandleClone(b)) /\ UNCHANGED notPoolVars
    \/ (\E b \in Buffers : HandleDrop(b)) /\ UNCHANGED notPoolVars

PoolSpec == PoolInit /\ [][PoolNext]_vars

\* the buffers with at least one live handle, and those on the free list
Live(p) == {b \in DOMAIN p.handles : p.handles[b] > 0}
OnFreeList(p) == Range(p.free)

C16_Conserved ==
    pool # None =>
        /\ Cardinality(Live(pool[1])) + Len(pool[1].free) = pool[1].capacity
        /\ Live(pool[1]) \cap OnFreeList(pool[1]) = {}
        /\ Cardinality(OnFreeList(pool[1])) = Len(pool[1].free)

C16_Step ==
    (pool # None /\ pool_result'.op = "allocate" /\ pool_result'.ret # None)
        => pool[1].handles[pool_result'.ret[1]] = 0

\* C16: in every state reached by allocate, clone and drop, the number of
\* buffers with a live handle plus the length of the free list equals the
\* capacity; no buffer is on the free list while a handle to it is live, no
\* buffer is on the free list twice, and allocate never hands out a buffer
\* that still has a live handle.
C16_PoolConservation == []C16_Conserved /\ [][C16_Step]_vars

\* a capacity-4 pool after a drop, with a buffer shared by two handles, a
\* buffer held by one, and buffers back on the free list
C16_Witness ==
    /\ pool # None
    /\ pool[1].capacity = 4
    /\ pool_result.op = "drop"
    /\ \E b \in Buffers : pool[1].handles[b] = 2
    /\ \E b \in Buffers : pool[1].handles[b] = 1
    /\ Len(pool[1].free) = 2

C17_State ==
    (pool # None /\ pool_result.op = "allocate" /\ pool_result.ret = None)
        => /\ Cardinality(Live(pool[1])) = pool[1].capacity
           /\ pool[1].free = <<>>

C17_Step ==
    (pool # None /\ pool_result'.op = "allocate")
        => /\ pool_result'.ret # None <=> pool[1].free # <<>>
           /\ pool_result'.ret = None => pool' = pool
           /\ pool'[1].capacity = pool[1].capacity
           /\ DOMAIN pool'[1].handles = DOMAIN pool[1].handles

\* C17: allocate returns a handle exactly when the free list is not empty
\* and None otherwise, leaving the pool as it was and never adding a buffer;
\* it returns None only when all `capacity` buffers are handed out.
C17_AllocateOrNone == []C17_State /\ [][C17_Step]_vars

\* capacity 4: after an allocation that returned None and the drop of the
\* last handle of a buffer, allocate succeeds again
C17_Witness ==
    /\ pool # None
    /\ pool[1].capacity = 4
    /\ pool_result.after_none
    /\ pool_result.op = "allocate"
    /\ pool_result.ret # None
    /\ pool[1].free = <<>>

-----------------------------------------------------------------------------
(* CuV4LStream (components/sources/cu_v4l/src/v4lstream.rs).               *)
(*                                                                         *)
(* The device is the environment.  It follows the V4L2 streaming I/O       *)
(* rules for user-pointer buffers: VIDIOC_QBUF hands the buffer with the   *)
(* given index and address to the driver and is refused for an index the   *)
(* driver still owns; the driver fills the buffers it owns while           *)
(* streaming; VIDIOC_DQBUF gives the oldest filled buffer back;            *)
(* VIDIOC_STREAMOFF gives every buffer back.  Any ioctl may also fail for  *)
(* a reason of its own (the device was unplugged, ..): `fault`.            *)

BufCount == 2
MaxHeld == 1

\* the Durations handed to set_timeout, in whole seconds
Durations == {1, 2147484}
I32_MAX == 2147483647

ArenaIndices(s) == DOMAIN s.arena

Kernel_new(count) ==
    [owned |-> [i \in 0..(count - 1) |-> None], done |-> <<>>, streaming |-> FALSE]

ioctl_QBUF(k, index, userptr) ==
    IF index \notin DOMAIN k.owned \/ k.owned[index] # None THEN Err("EINVAL")
    ELSE Ok([k EXCEPT !.owned[index] = Some(userptr)])

ioctl_DQBUF(k) ==
    IF k.done = <<>> THEN Err("EINVAL")
    ELSE Ok([kernel |-> [k EXCEPT !.owned[Head(k.done)] = None, !.done = Tail(@)],
             index |-> Head(k.done)])

ioctl_STREAMON(k) == [k EXCEPT !.streaming = TRUE]

ioctl_STREAMOFF(k) ==
    [k EXCEPT !.streaming = FALSE,
              !.owned = [i \in DOMAIN k.owned |-> None],
              !.done = <<>>]

\* poll(POLLIN, timeout) has something to report: a filled buffer, or the
\* error condition of a queue that is not streaming
poll_ready(k) == k.done # <<>> \/ ~k.streaming

\* with_buffers creating a pool of buf_count buffers, without the spare one
with_buffers_no_spare(buf_size, buf_count) ==
    [memory_pool |-> CuHostMemoryPool_new(buf_size, buf_count, PageSize),
     arena |-> [i \in 0..(buf_count - 1) |-> [meta |-> "default", handle |-> None]],
     arena_last_freed_up_index |-> 0,
     active |-> FALSE,
     timeout |-> None]

\* CuV4LStream::with_buffers(dev, buf_type, buf_size, buf_count)
with_buffers(buf_size, buf_count) ==
    [memory_pool |-> CuHostMemoryPool_new(buf_size, buf_count + 1, PageSize),
     arena |-> [i \in 0..(buf_count - 1) |-> [meta |-> "default", handle |-> None]],
     arena_last_freed_up_index |-> 0,
     active |-> FALSE,
     timeout |-> None]

\* set_timeout: duration.as_millis().try_into().unwrap() into an i32;
\* secs * 1000 exceeds i32::MAX exactly when secs exceeds i32::MAX / 1000
set_timeout(s, secs) ==
    IF secs > I32_MAX \div 1000 THEN Panic("TryFromIntError")
    ELSE Ok([s EXCEPT !.timeout = Some(secs * 1000)])

clear_timeout(s) == [s EXCEPT !.timeout = None]

\* a queue that stores the handle in the arena before it looks at the
\* outcome of VIDIOC_QBUF
queue_store_first(s, k, index, fault) ==
    LET a == allocate(s.memory_pool)
    IN  IF a.ret = None
        THEN [stream |-> s, kernel |-> k, ret |-> Err("Failed to allocate buffer")]
        ELSE LET q == IF fault THEN Err("EIO") ELSE ioctl_QBUF(k, index, a.ret[1])
                 old == s.arena[index].handle
                 p == IF old # None THEN handle_drop(a.pool, old[1]) ELSE a.pool
                 s1 == [s EXCEPT !.memory_pool = p,
                                 !.arena[index] = [meta |-> "default", handle |-> a.ret]]
             IN  IF q.tag = "Err"
                 THEN [stream |-> s1, kernel |-> k, ret |-> q]
                 ELSE [stream |-> s1, kernel |-> q.val, ret |-> Ok(0)]

\* CaptureStream::queue(index)
queue(s, k, index, fault) ==
    LET a == allocate(s.memory_pool)
    IN  IF a.ret = None
        THEN [stream |-> s, kernel |-> k, ret |-> Err("Failed to allocate buffer")]
        ELSE LET q == IF fault THEN Err("EIO") ELSE ioctl_QBUF(k, index, a.ret[1])
             IN  IF q.tag = "Err"
                 \* `?` returns; buffer_handle goes out of scope
                 THEN [stream |-> [s EXCEPT !.memory_pool = handle_drop(a.pool, a.ret[1])],
                       kernel |-> k, ret |-> q]
                 \* the assignment drops the handle the slot held
                 ELSE LET old == s.arena[index].handle
                          p == IF old # None THEN handle_drop(a.pool, old[1]) ELSE a.pool
                      IN  [stream |-> [s EXCEPT !.memory_pool = p,
                                                !.arena[index] =
                                                    [meta |-> "default", handle |-> a.ret]],
                           kernel |-> q.val, ret |-> Ok(0)]

\* for index in 1..self.arena.len() { self.queue(index)?; }
\* fault is the index whose VIDIOC_QBUF fails, if any
RECURSIVE queue_from(_, _, _, _)
queue_from(s, k, index, fault) ==
    IF index >= Cardinality(ArenaIndices(s))
    THEN [stream |-> s, kernel |-> k, ret |-> Ok(0)]
    ELSE LET r == queue(s, k, index, fault = index)
         IN  IF r.ret.tag = "Err" THEN r
             ELSE queue_from(r.stream, r.kernel, index + 1, fault)

\* Stream::start; fault = arena.len() makes VIDIOC_STREAMON fail
start(s, k, fault) ==
    LET r == queue_from(s, k, 1, fault)
    IN  IF r.ret.tag = "Err" THEN r
        ELSE LET s1 == [r.stream EXCEPT !.arena_last_freed_up_index = 0]
             IN  IF fault = Cardinality(ArenaIndices(s))
                 THEN [stream |-> s1, kernel |-> r.kernel, ret |-> Err("VIDIOC_STREAMON")]
                 ELSE [stream |-> [s1 EXCEPT !.active = TRUE],
                       kernel |-> ioctl_STREAMON(r.kernel), ret |-> Ok(0)]

\* Stream::stop
stop(s, k, fault) ==
    IF fault THEN [stream |-> s, kernel |-> k, ret |-> Err("VIDIOC_STREAMOFF")]
    ELSE [stream |-> [s EXCEPT !.active = FALSE],
          kernel |-> ioctl_STREAMOFF(k), ret |-> Ok(0)]

\* CaptureStream::dequeue once poll has returned; poll returns 0 when the
\* timeout elapsed with nothing to report
dequeue(s, k, fault) ==
    IF ~poll_ready(k)
    THEN [stream |-> s, kernel |-> k, ret |-> Err("TimedOut")]
    ELSE LET d == IF fault THEN Err("EIO") ELSE ioctl_DQBUF(k)
         IN  IF d.tag = "Err" THEN [stream |-> s, kernel |-> k, ret |-> d]
             ELSE [stream |-> [s EXCEPT !.arena[d.val.index].meta = "dequeued"],
                   kernel |-> d.val.kernel, ret |-> Ok(d.val.index)]

\* poll(POLLIN, self.timeout.unwrap_or(-1)) returns: something is ready, or
\* a timeout was given and elapses; with -1 it waits for the device
poll_returns(s, k) == poll_ready(k) \/ s.timeout # None

\* next going on to queue without looking at self.active
next_queue_unchecked(s, k, fault) ==
    queue(s, k, s.arena_last_freed_up_index, fault)

\* CaptureStream::next, up to the call of dequeue
next_queue(s, k, fault) ==
    IF ~s.active
    THEN [stream |-> s, kernel |-> k,
          ret |-> Err("Stream is not active. Call start() first.")]
    ELSE queue(s, k, s.arena_last_freed_up_index, fault)

\* CaptureStream::next, from the return of dequeue
next_dequeued(s, k, fault) ==
    LET r == dequeue(s, k, fault)
    IN  IF r.ret.tag = "Err" THEN r
        ELSE IF r.stream.arena[r.ret.val].handle = None
             THEN [stream |-> r.stream, kernel |-> r.kernel,
                   ret |-> Panic("called Option::unwrap() on a None value")]
             ELSE [stream |-> [r.stream EXCEPT !.arena_last_freed_up_index = r.ret.val],
                   kernel |-> r.kernel, ret |-> r.ret]

StreamInit ==
    /\ ConfigInit
    /\ NoPool
    /\ stream = with_buffers(BufSize, BufCount)
    /\ kernel = Kernel_new(BufCount)
    /\ held = [b \in 0..BufCount |-> 0]
    /\ stream_pc = "idle"
    /\ stream_result = [op |-> "with_buffers", status |-> Ok(0)]
    /\ NoHarness
    /\ NoRuntime
    /\ NoPacket

\* the caller can call into the stream: no call is under way and no call
\* has panicked
Callable == stream_pc = "idle" /\ stream_result.status.tag # "panic"

Start(fault) ==
    /\ Callable
    /\ \E r \in {start(stream, kernel, fault)} :
           /\ stream' = r.stream
           /\ kernel' = r.kernel
           /\ stream_result' = [op |-> "start", status |-> r.ret]
    /\ UNCHANGED <<held, stream_pc>>

Stop(fault) ==
    /\ Callable
    /\ \E r \in {stop(stream, kernel, fault)} :
           /\ stream' = r.stream
           /\ kernel' = r.kernel
           /\ stream_result' = [op |-> "stop", status |-> r.ret]
    /\ UNCHANGED <<held, stream_pc>>

\* next(): the active check and queue(arena_last_freed_up_index); on
\* success the call goes on into dequeue()
NextCall(fault) ==
    /\ Callable
    /\ \E r \in {next_queue(stream, kernel, fault)} :
           /\ stream' = r.stream
           /\ kernel' = r.kernel
           /\ stream_pc' = IF r.ret.tag = "Ok" THEN "dequeue" ELSE "idle"
           /\ stream_result' =
                  [op |-> "next",
                   status |-> IF r.ret.tag = "Ok" THEN [tag |-> "pending"] ELSE r.ret]
    /\ UNCHANGED held

\* poll returns and next() runs to its end
DequeueReturns(fault) ==
    /\ stream_pc = "dequeue"
    /\ poll_returns(stream, kernel)
    /\ \E r \in {next_dequeued(stream, kernel, fault)} :
           /\ stream' = r.stream
           /\ kernel' = r.kernel
           /\ stream_result' = [op |-> "next", status |-> r.ret]
    /\ stream_pc' = "idle"
    /\ UNCHANGED held

SetTimeout(secs) ==
    /\ Callable
    /\ \E r \in {set_timeout(stream, secs)} :
           /\ stream' = IF r.tag = "Ok" THEN r.val ELSE stream
           /\ stream_result' = [op |-> "set_timeout",
                                status |-> IF r.tag = "Ok" THEN Ok(0) ELSE r]
    /\ UNCHANGED <<kernel, held, stream_pc>>

ClearTimeout ==
    /\ Callable
    /\ stream' = clear_timeout(stream)
    /\ stream_result' = [op |-> "clear_timeout", status |-> Ok(0)]
    /\ UNCHANGED <<kernel, held, stream_pc>>

\* the device fills a buffer it owns
DeviceFill(index) ==
    /\ kernel.streaming
    /\ kernel.owned[index] # None
    /\ \A i \in 1..Len(kernel.done) : kernel.done[i] # index
    /\ kernel' = [kernel EXCEPT !.done = Append(@, index)]
    /\ UNCHANGED <<stream, held, stream_pc, stream_result>>

\* the caller clones the handle next() returned a reference to
CloneFrame ==
    /\ Callable
    /\ stream_result.op = "next"
    /\ stream_result.status.tag = "Ok"
    /\ \E b \in {stream.arena[stream_result.status.val].handle[1]} :
           /\ held[b] < MaxHeld
           /\ stream' = [stream EXCEPT !.memory_pool = handle_clone(@, b)]
           /\ held' = [held EXCEPT ![b] = @ + 1]
    /\ UNCHANGED <<kernel, stream_pc, stream_result>>

\* the caller drops a handle it cloned
DropFrame(b) ==
    /\ Callable
    /\ held[b] > 0
    /\ stream' = [stream EXCEPT !.memory_pool = handle_drop(@, b)]
    /\ held' = [held EXCEPT ![b] = @ - 1]
    /\ UNCHANGED <<kernel, stream_pc, stream_result>>

notStreamVars == <<configVars, poolVars, taskVars, schedVars, parserVars>>

StreamNext ==
    \/ (\E fault \in 0..BufCount : Start(fault)) /\ UNCHANGED notStreamVars
    \/ (\E fault \in BOOLEAN : Stop(fault)) /\ UNCHANGED notStreamVars
    \/ (\E fault \in BOOLEAN : NextCall(fault)) /\ UNCHANGED notStreamVars
    \/ (\E fault \in BOOLEAN : DequeueReturns(fault)) /\ UNCHANGED notStreamVars
    \/ (\E secs \in Durations : SetTimeout(secs)) /\ UNCHANGED notStreamVars
    \/ ClearTimeout /\ UNCHANGED notStreamVars
    \/ (\E index \in DOMAIN kernel.owned : DeviceFill(index))
          /\ UNCHANGED notStreamVars
    \/ CloneFrame /\ UNCHANGED notStreamVars
    \/ (\E b \in DOMAIN held : DropFrame(b)) /\ UNCHANGED notStreamVars

StreamSpec == StreamInit /\ [][StreamNext]_vars

\* C18: every buffer the device owns (queued and not yet dequeued) is the
\* buffer of the handle stored in the arena slot of its index, that handle
\* is live and the buffer is not on the pool's free list.
C18_KernelBuffersHeld ==
    \A index \in DOMAIN kernel.owned :
        kernel.owned[index] # None =>
            /\ stream.arena[index].handle = kernel.owned[index]
            /\ stream.memory_pool.handles[kernel.owned[index][1]] > 0
            /\ kernel.owned[index][1] \notin OnFreeList(stream.memory_pool)

\* next() queued a buffer, dequeue timed out, and the following next()
\* tried to queue the same index again while the device still owns it
C18_Witness ==
    /\ stream_result.op = "next"
    /\ stream_result.status = Err("EINVAL")
    /\ kernel.owned[stream.arena_last_freed_up_index] # None
    /\ kernel.streaming
    /\ stream.timeout # None

\* C19 (V4L part): whenever next() is inside dequeue(), the wait can end:
\* either the device has something to report or the timeout elapses and
\* dequeue returns TimedOut.
C19_DequeueReturns ==
    stream_pc = "dequeue" => ENABLED (\E fault \in BOOLEAN : DequeueReturns(fault))

-----------------------------------------------------------------------------
(* The tasks of the example applications (examples/cu_multisources,        *)
(* examples/cu_panic, examples/cu_zenoh).  A CuMsg is modelled by its      *)
(* payload, an Option.  process returns the new state of the task, the     *)
(* calls it made on its output message, in order, and its result.          *)

set_payload(v) == [call |-> "set_payload", payload |-> Some(v)]
clear_payload == [call |-> "clear_payload", payload |-> None]

Returns(st, ops, ret) == [st |-> st, ops |-> ops, ret |-> ret]

SourceKinds ==
    {"IntegerSrcTask", "FloatSrcTask", "StrSrcTask", "IntSrcTask", "MySource",
     "ZenohSubscriberTask", "PingTask"}

SinkKinds ==
    {"MergingSinkTask", "MergedSinkTask", "MySink", "SinkTask",
     "ZenohPublisherTask", "PrintTask", "PongHandlerTask"}

TransformKinds == {"MergerTask", "PingHandlerTask"}

TaskKinds == SourceKinds \cup TransformKinds \cup SinkKinds

\* the tasks whose new() needs a configuration and opens a zenoh session
ZenohKinds == {"ZenohSubscriberTask", "ZenohPublisherTask"}

\* new(config): `given` tells whether a ComponentConfig with a topic is
\* passed, `session` whether the zenoh session can be opened
task_new(kind, given, session) ==
    IF kind \in ZenohKinds /\ ~given THEN Err("You need a config.")
    ELSE IF kind \in ZenohKinds /\ ~session THEN Err("Failed to open zenoh session")
    ELSE IF kind = "IntegerSrcTask" THEN Ok([value |-> 42])
    ELSE IF kind = "FloatSrcTask" THEN Ok([value |-> 24])
    ELSE IF kind \in {"StrSrcTask", "IntSrcTask"} THEN Ok([number_of_executions |-> 0])
    ELSE IF kind = "PingTask" THEN Ok([pinged |-> FALSE])
    ELSE Ok([unit |-> TRUE])

\* what the outside world does during a call of process: the outcome of
\* subscriber.try_recv() or of publisher.put()
Envs(kind) ==
    IF kind = "ZenohSubscriberTask" THEN {"utf8", "bytes", "none", "error"}
    ELSE IF kind = "ZenohPublisherTask" THEN {"ok", "error"}
    ELSE {"ok"}

\* CuSrcTask::process(&mut self, clock, output)
process_source(kind, st, env) ==
    IF kind \in {"IntegerSrcTask", "FloatSrcTask"}
    THEN Returns([st EXCEPT !.value = @ + 1], <<set_payload(st.value + 1)>>, Ok(0))
    ELSE IF kind = "StrSrcTask"
    THEN Returns([st EXCEPT !.number_of_executions = @ + 1],
                 IF st.number_of_executions = 0 THEN <<>>
                 ELSE IF st.number_of_executions = 1
                      THEN <<set_payload("SrcTask ran one time")>>
                      ELSE <<clear_payload>>,
                 Ok(0))
    ELSE IF kind = "IntSrcTask"
    THEN Returns([st EXCEPT !.number_of_executions = @ + 1],
                 IF st.number_of_executions = 0 THEN <<>>
                 ELSE IF st.number_of_executions = 1
                      THEN <<set_payload(st.number_of_executions)>>
                      ELSE <<clear_payload>>,
                 Ok(0))
    ELSE IF kind = "MySource"
    THEN Returns(st, <<set_payload(42)>>, Ok(0))
    ELSE IF kind = "ZenohSubscriberTask"
    THEN IF env = "none" THEN Returns(st, <<clear_payload>>, Ok(0))
         ELSE IF env = "error"
              THEN Returns(st, <<>>, Err("Error receiving message"))
              ELSE Returns(st, <<set_payload(env)>>, Ok(0))
    ELSE \* PingTask
         IF ~st.pinged
         THEN Returns([st EXCEPT !.pinged = TRUE], <<set_payload("Ping")>>, Ok(0))
         ELSE Returns(st, <<clear_payload>>, Ok(0))

Unwrap == Panic("called Option::unwrap() on a None value")

\* CuTask::process(&mut self, clock, input, output) and
\* CuSinkTask::process(&mut self, clock, input); input is the tuple of the
\* payloads of the input messages
process_input(kind, st, input, env) ==
    IF kind = "MergingSinkTask"
    THEN IF input[1] = None \/ input[2] = None
         THEN Returns(st, <<>>, Unwrap) ELSE Returns(st, <<>>, Ok(0))
    ELSE IF kind = "MergerTask"
    THEN IF input[1] = None \/ input[2] = None
         THEN Returns(st, <<>>, Unwrap)
         ELSE Returns(st, <<set_payload(<<input[1][1], input[2][1]>>)>>, Ok(0))
    ELSE IF kind \in {"MergedSinkTask", "MySink"}
    THEN IF input[1] = None
         THEN Returns(st, <<>>, Unwrap) ELSE Returns(st, <<>>, Ok(0))
    ELSE IF kind = "PingHandlerTask"
    THEN IF input[1] = None THEN Returns(st, <<clear_payload>>, Ok(0))
         ELSE IF input[1][1] # "utf8"
              THEN Returns(st, <<>>, Err("Received payload is not utf8"))
              ELSE Returns(st, <<set_payload("Pong")>>, Ok(0))
    ELSE IF kind = "ZenohPublisherTask"
    THEN IF input[1] # None /\ env = "error"
         THEN Returns(st, <<>>, Err("Failed to publish value"))
         ELSE Returns(st, <<>>, Ok(0))
    ELSE IF kind = "PrintTask"
    THEN IF input[1] # None /\ input[1][1] # "utf8"
         THEN Returns(st, <<>>, Err("Received payload is not utf8"))
         ELSE Returns(st, <<>>, Ok(0))
    ELSE \* SinkTask, PongHandlerTask
         Returns(st, <<>>, Ok(0))

process(kind, st, input, env) ==
    IF kind \in SourceKinds THEN process_source(kind, st, env)
    ELSE process_input(kind, st, input, env)

\* the payload of the output message after the calls `ops`
RECURSIVE apply_ops(_, _)
apply_ops(payload, ops) ==
    IF ops = <<>> THEN payload ELSE apply_ops(Head(ops).payload, Tail(ops))

\* the payloads a message of each input of a task can carry
ByteMsgs == {None, Some("utf8"), Some("bytes")}
OneMsg(v) == {None, Some(v)}

Inputs(kind) ==
    IF kind \in {"MergingSinkTask", "MergerTask"}
    THEN {<<i, f>> : i \in OneMsg(43), f \in OneMsg(25)}
    ELSE IF kind = "MergedSinkTask" THEN {<<m>> : m \in OneMsg(<<43, 25>>)}
    ELSE IF kind = "MySink" THEN {<<m>> : m \in OneMsg(42)}
    ELSE IF kind \in {"PingHandlerTask", "PrintTask"} THEN {<<m>> : m \in ByteMsgs}
    ELSE IF kind \in SourceKinds THEN {<<>>}
    ELSE {<<m>> : m \in OneMsg("Pong")}

-----------------------------------------------------------------------------
(* A task on its own: new(), then calls of process with every payload its  *)
(* input messages can carry, as a unit test of the task would make them.   *)

MaxCalls == 3

TaskInit ==
    /\ ConfigInit
    /\ NoPool
    /\ NoStream
    /\ NoRuntime
    /\ NoPacket
    /\ \E kind \in TaskKinds :
           harness = [kind |-> kind,
                      st |-> task_new(kind, TRUE, TRUE).val,
                      output |-> None,
                      calls |-> 0,
                      last |-> None]

CallProcess(input, env) ==
    /\ harness.calls < MaxCalls
    /\ harness.last # None => harness.last[1].ret.tag # "panic"
    /\ \E r \in {process(harness.kind, harness.st, input, env)} :
           harness' = [kind |-> harness.kind,
                       st |-> r.st,
                       output |-> apply_ops(harness.output, r.ops),
                       calls |-> harness.calls + 1,
                       last |-> Some([input |-> input, ops |-> r.ops, ret |-> r.ret])]

notTaskVars == <<configVars, poolVars, streamVars, schedVars, parserVars>>

TaskNext ==
    \/ /\ harness.kind \in SourceKinds
       /\ \E env \in Envs(harness.kind) : CallProcess(<<>>, env)
       /\ UNCHANGED notTaskVars
    \/ /\ harness.kind \notin SourceKinds
       /\ \E input \in Inputs(harness.kind), env \in Envs(harness.kind) :
              CallProcess(input, env)
       /\ UNCHANGED notTaskVars

TaskSpec == TaskInit /\ [][TaskNext]_vars

\* C15: a transform or sink whose process is called with an input message
\* whose payload is cleared returns (Ok or Err) and does not panic.
C15_HandlesClearedInput ==
    (/\ harness.last # None
     /\ harness.kind \notin SourceKinds
     /\ \E i \in DOMAIN harness.last[1].input : harness.last[1].input[i] = None)
        => harness.last[1].ret.tag # "panic"

\* C14: a source whose process returns Ok has called set_payload or
\* clear_payload on its output exactly once during that call, in every
\* call including the first one.
C14_SourceSetsOrClears ==
    (/\ harness.last # None
     /\ harness.kind \in SourceKinds
     /\ harness.last[1].ret.tag = "Ok")
        => Len(harness.last[1].ops) = 1

-----------------------------------------------------------------------------
(* The graphs the runtime is built from: the tasks of the examples wired   *)
(* the way their message types allow, declared through add_node / connect  *)
(* ("api") or loaded from a RON document ("text").  A connection is        *)
(* declared with or without a `store`.                                     *)

TaskDecl(id, type) == [id |-> id, type |-> type]
CnxDecl(src, dst, msg, store) == [src |-> src, dst |-> dst, msg |-> msg, store |-> store]

Pipelines ==
    {[name |-> "multisources", via |-> "api",
      tasks |-> <<TaskDecl("sink", "MergingSinkTask"),
                  TaskDecl("src1", "IntegerSrcTask"),
                  TaskDecl("src2", "FloatSrcTask"),
                  TaskDecl("merger", "MergerTask"),
                  TaskDecl("sink2", "MergedSinkTask")>>,
      cnx |-> <<CnxDecl("src1", "sink", "i32", None),
                CnxDecl("src2", "sink", "f32", Some(TRUE)),
                CnxDecl("src1", "merger", "i32", None),
                CnxDecl("src2", "merger", "f32", None),
                CnxDecl("merger", "sink2", "(i32, f32)", Some(FALSE))>>],
     [name |-> "panic", via |-> "text",
      tasks |-> <<TaskDecl("src", "StrSrcTask"),
                  TaskDecl("sink", "SinkTask"),
                  TaskDecl("isrc", "IntSrcTask"),
                  TaskDecl("isink", "SinkTask")>>,
      cnx |-> <<CnxDecl("src", "sink", "String", None),
                CnxDecl("isrc", "isink", "i64", Some(FALSE))>>],
     [name |-> "pong", via |-> "text",
      tasks |-> <<TaskDecl("pub", "ZenohPublisherTask"),
                  TaskDecl("handler", "PingHandlerTask"),
                  TaskDecl("sub", "ZenohSubscriberTask")>>,
      cnx |-> <<CnxDecl("sub", "handler", "Vec<u8>", None),
                CnxDecl("handler", "pub", "String", Some(TRUE))>>],
     [name |-> "zenoh", via |-> "api",
      tasks |-> <<TaskDecl("src", "MySource"), TaskDecl("sink", "MySink")>>,
      cnx |-> <<CnxDecl("src", "sink", "MyPayload", None)>>]}

\* config.add_node(Node::new(id, type)) for every task, in order
RECURSIVE api_add_nodes(_, _)
api_add_nodes(c, decls) ==
    IF decls = <<>> THEN c
    ELSE api_add_nodes(add_node(c, Node_new(Head(decls).id, Head(decls).type)).cfg,
                       Tail(decls))

\* config.connect(src, dst, msg), or connect_ext with the declared store,
\* for every connection, in order, on the NodeIds add_node returned
RECURSIVE api_connect(_, _)
api_connect(c, decls) ==
    IF decls = <<>> THEN c
    ELSE LET x == Head(decls)
             src == find_node(c, x.src)[1]
             dst == find_node(c, x.dst)[1]
             r == IF x.store = None THEN connect(c, src, dst, x.msg)
                  ELSE connect_ext(c, src, dst, x.msg, None, x.store)
         IN  api_connect(r.val, Tail(decls))

\* the RON document of a declaration: a connection declared without a
\* store has no `store` field
doc_of(p) ==
    ConfigDoc([i \in 1..Len(p.tasks) |->
                  ("id" :> p.tasks[i].id) @@ ("type" :> Some(p.tasks[i].type))],
              [i \in 1..Len(p.cnx) |->
                  ("src" :> p.cnx[i].src) @@ ("dst" :> p.cnx[i].dst)
                    @@ ("msg" :> p.cnx[i].msg)
                    @@ Field(p.cnx[i].store # None, "store", p.cnx[i].store)],
              None, None)

build_config(p) ==
    IF p.via = "api" THEN api_connect(api_add_nodes(CuConfig_default, p.tasks), p.cnx)
    ELSE read_configuration_str(doc_of(p)).val

-----------------------------------------------------------------------------
(* The scheduler (specification 4.5, 5 and 7): build, run and shutdown of  *)
(* one runtime by a single worker.                                         *)

MaxTicks == 3

\* the plan under construction, extended by the least node-id among the
\* nodes all of whose predecessors are placed
RECURSIVE topological_from(_, _)
topological_from(c, placed) ==
    LET done == Range(placed)
        ready == {v \in NodesOf(c) \ done :
                     \A k \in InEdges(c, v) : c.graph.edges[k + 1].node[1] \in done}
    IN  IF ready = {} THEN placed
        ELSE topological_from(c, Append(placed, MinOf(ready)))

\* a plan that follows the node-ids and ignores the edges
topological_order_by_id(c) == [i \in 1..Len(c.graph.nodes) |-> i - 1]

\* build step 1: topological sort, ties broken by ascending node-id
topological_order(c) == topological_from(c, <<>>)

\* the task type of a node
kind_of(c, v) == c.graph.nodes[v + 1].weight.type_[1]

\* the k-tuple of payloads handed to process of node v: the slots of its
\* incoming edges in edge-id order
input_of(c, s, v) == [i \in 1..Len(task_inputs(c, v)) |-> s[task_inputs(c, v)[i]]]

\* the slots after an Ok process of node v: the calls it made on its output
\* applied to the slot of every outgoing edge
write_slots(c, s, v, ops) ==
    [e \in DOMAIN s |-> IF e \in Range(get_src_edges(c, v)) THEN apply_ops(s[e], ops)
                        ELSE s[e]]

\* the slots after a failed process of node v, left as the task left them
keep_slots(c, s, v) == s

\* the slots after a failed process of node v: payload cleared on every
\* outgoing edge
clear_slots(c, s, v) ==
    [e \in DOMAIN s |-> IF e \in Range(get_src_edges(c, v)) THEN None ELSE s[e]]

\* a store of Some(true) only counts as logging enabled
store_explicit(store) == store = Some(TRUE)

\* the effective store of a connection: true unless declared false
store_effective(store) == store # Some(FALSE)

\* the slots handed to the logger after process of node v at tick t: those
\* of its outgoing edges that are stored, in edge-id order
logged(c, s, v, t) ==
    LET es == Ascending({e \in Range(get_src_edges(c, v)) :
                            store_effective(get_edge_weight(c, e)[1].store)})
    IN  [i \in 1..Len(es) |-> [edge |-> es[i], tick |-> t, payload |-> s[es[i]]]]

Event(hook, node, tick, ret, input, ops) ==
    [hook |-> hook, node |-> node, tick |-> tick, ret |-> ret, input |-> input,
     ops |-> ops]

Plan == topological_order(config)

\* the order in which shutdown visits the plan
stop_order_forward(plan) == plan

stop_order(plan) == [i \in 1..Len(plan) |-> plan[Len(plan) + 1 - i]]

Sched(phase, pos, hook, tick, fatal) ==
    [phase |-> phase, pos |-> pos, hook |-> hook, tick |-> tick, fatal |-> fatal]

\* the runtime builder is handed a validated graph: plan and one cleared
\* slot per edge
SchedInit ==
    /\ NoPool
    /\ NoStream
    /\ NoHarness
    /\ NoPacket
    /\ \E p \in Pipelines :
           /\ pipeline = p
           /\ config = build_config(p)
    /\ text = None
    /\ deserialized = None
    /\ result = [op |-> "default", status |-> Ok(0)]
    /\ sched = Sched("new", 1, "new", 0, FALSE)
    /\ instances = [v \in NodesOf(config) |-> None]
    /\ slots = [e \in EdgesOf(config) |-> None]
    /\ recorded = {}
    /\ journal = <<>>
    /\ log = <<>>

\* build step 3: new(config) of the next task of the plan; a failure aborts
\* the build
NewTask(given, session) ==
    /\ sched.phase = "new"
    /\ \E v \in {Plan[sched.pos]} :
       \E r \in {task_new(kind_of(config, v), given, session)} :
           /\ log' = Append(log, Event("new", v, 0, r.tag, <<>>, 0))
           /\ IF r.tag = "Err"
              THEN /\ sched' = [sched EXCEPT !.phase = "failed"]
                   /\ UNCHANGED instances
              ELSE /\ instances' = [instances EXCEPT ![v] = Some(r.val)]
                   /\ sched' = IF sched.pos < Len(Plan)
                               THEN [sched EXCEPT !.pos = @ + 1]
                               ELSE Sched("start", 1, "start", 0, FALSE)
    /\ UNCHANGED <<pipeline, slots, recorded, journal>>

\* build step 4: start of the next task of the plan
StartTask ==
    /\ sched.phase = "start"
    /\ log' = Append(log, Event("start", Plan[sched.pos], 0, "Ok", <<>>, 0))
    /\ sched' = IF sched.pos < Len(Plan)
                THEN [sched EXCEPT !.pos = @ + 1]
                ELSE Sched("run", 1, "preprocess", 0, FALSE)
    /\ UNCHANGED <<pipeline, instances, slots, recorded, journal>>

\* a tick boundary: no node of the sweep has been visited yet
AtBoundary == sched.phase = "run" /\ sched.pos = 1 /\ sched.hook = "preprocess"

Preprocess ==
    /\ sched.phase = "run"
    /\ sched.hook = "preprocess"
    /\ AtBoundary => (~sched.fatal /\ sched.tick < MaxTicks)
    /\ log' = Append(log, Event("preprocess", Plan[sched.pos], sched.tick, "Ok", <<>>, 0))
    /\ sched' = [sched EXCEPT !.hook = "process"]
    /\ UNCHANGED <<pipeline, instances, slots, recorded, journal>>

\* process of the node at hand; `decision` is the monitor's classification
\* should the task return an error
Process(env, decision) ==
    /\ sched.phase = "run"
    /\ sched.hook = "process"
    /\ \E v \in {Plan[sched.pos]} :
       \E input \in {input_of(config, slots, v)} :
       \E r \in {process(kind_of(config, v), instances[v][1], input, env)} :
           /\ log' = Append(log, Event("process", v, sched.tick, r.ret.tag, input,
                                       Len(r.ops)))
           /\ IF r.ret.tag = "panic"
              THEN /\ sched' = [sched EXCEPT !.phase = "panicked"]
                   /\ UNCHANGED <<instances, slots, recorded, journal>>
              ELSE /\ instances' = [instances EXCEPT ![v] = Some(r.st)]
                   /\ \E s \in {IF r.ret.tag = "Ok"
                                THEN write_slots(config, slots, v, r.ops)
                                ELSE clear_slots(config, slots, v)} :
                          /\ slots' = s
                          /\ journal' = journal \o logged(config, s, v, sched.tick)
                   /\ recorded' = IF r.ret.tag = "Err"
                                  THEN recorded \cup {[node |-> v, tick |-> sched.tick,
                                                       decision |-> decision]}
                                  ELSE recorded
                   /\ sched' = [sched EXCEPT
                                   !.hook = "postprocess",
                                   !.fatal = @ \/ (r.ret.tag = "Err" /\ decision = "fatal")]
    /\ UNCHANGED pipeline

\* postprocess of the node at hand, then on to the next node of the sweep or
\* to the next tick
Postprocess ==
    /\ sched.phase = "run"
    /\ sched.hook = "postprocess"
    /\ log' = Append(log, Event("postprocess", Plan[sched.pos], sched.tick, "Ok", <<>>, 0))
    /\ sched' = IF sched.pos < Len(Plan)
                THEN [sched EXCEPT !.pos = @ + 1, !.hook = "preprocess"]
                ELSE [sched EXCEPT !.pos = 1, !.hook = "preprocess", !.tick = @ + 1]
    /\ UNCHANGED <<pipeline, instances, slots, recorded, journal>>

\* the stop signal, or a fatal error, observed at a tick boundary
Shutdown ==
    /\ AtBoundary
    /\ sched' = [sched EXCEPT !.phase = "stop", !.hook = "stop"]
    /\ UNCHANGED <<pipeline, instances, slots, recorded, journal, log>>

\* shutdown: stop of the next task in reverse topological order
StopTask ==
    /\ sched.phase = "stop"
    /\ log' = Append(log, Event("stop", stop_order(Plan)[sched.pos], sched.tick, "Ok",
                                <<>>, 0))
    /\ sched' = IF sched.pos < Len(Plan)
                THEN [sched EXCEPT !.pos = @ + 1]
                ELSE [sched EXCEPT !.phase = "done"]
    /\ UNCHANGED <<pipeline, instances, slots, recorded, journal>>

Decisions == {"ignore", "degrade", "fatal"}

notSchedVars == <<configVars, poolVars, streamVars, taskVars, parserVars>>

SchedNext ==
    \/ (\E given \in BOOLEAN, session \in BOOLEAN : NewTask(given, session))
          /\ UNCHANGED notSchedVars
    \/ StartTask /\ UNCHANGED notSchedVars
    \/ Preprocess /\ UNCHANGED notSchedVars
    \/ (\E env \in Envs(kind_of(config, Plan[sched.pos])), decision \in Decisions :
          Process(env, decision)) /\ UNCHANGED notSchedVars
    \/ Postprocess /\ UNCHANGED notSchedVars
    \/ Shutdown /\ UNCHANGED notSchedVars
    \/ StopTask /\ UNCHANGED notSchedVars

SchedSpec == SchedInit /\ [][SchedNext]_vars

-----------------------------------------------------------------------------
(* Properties of the scheduler *)

\* the events of the log selected by hook and tick, in order
Calls(hook, t) ==
    LET Test(e) == e.hook = hook /\ e.tick = t IN SelectSeq(log, Test)

\* the nodes whose process was called during tick t, in call order
ProcessOrder(t) == [i \in 1..Len(Calls("process", t)) |-> Calls("process", t)[i].node]

\* the source node of edge k
SrcOf(k) == config.graph.edges[k + 1].node[1]

\* the nodes that may be swept next once the nodes of S have been swept
ReadyAfter(S) ==
    {v \in NodesOf(config) \ S : \A k \in InEdges(config, v) : SrcOf(k) \in S}

\* C11: within a tick every node is swept at most once, the source of every
\* edge has been processed before its destination is, each node swept is the
\* least node-id among those whose predecessors are done, and every tick
\* sweeps the nodes in the order of the first tick.
C11_TopologicalSweep ==
    \A t \in 0..MaxTicks :
        LET o == ProcessOrder(t)
            before(j) == {o[i] : i \in 1..(j - 1)}
        IN  /\ \A i \in DOMAIN o, j \in DOMAIN o : o[i] = o[j] => i = j
            /\ \A j \in DOMAIN o : \A k \in InEdges(config, o[j]) :
                   SrcOf(k) \in before(j)
            /\ \A j \in DOMAIN o : o[j] = MinOf(ReadyAfter(before(j)))
            /\ Len(o) <= Len(ProcessOrder(0))
            /\ \A j \in DOMAIN o : o[j] = ProcessOrder(0)[j]

\* two sweeps of a graph whose first node is a sink fed by two sources that
\* are ready at the same time
C11_Witness ==
    /\ pipeline # None
    /\ pipeline.name = "multisources"
    /\ sched.tick >= 2
    /\ ProcessOrder(0) = <<1, 2, 0, 3, 4>>
    /\ ProcessOrder(1) = <<1, 2, 0, 3, 4>>

\* the hooks called on node v so far, in call order
HooksOf(v) ==
    LET Test(e) == e.node = v
        es == SelectSeq(log, Test)
    IN  [i \in 1..Len(es) |-> es[i].hook]

\* the hooks that may follow a hook on the same task
HookSucc(h) ==
    IF h = "new" THEN {"start"}
    ELSE IF h = "start" THEN {"preprocess", "stop"}
    ELSE IF h = "preprocess" THEN {"process"}
    ELSE IF h = "process" THEN {"postprocess"}
    ELSE IF h = "postprocess" THEN {"preprocess", "stop"}
    ELSE {}

\* the nodes on which `hook` was called, in call order
NodesCalled(hook) ==
    LET Test(e) == e.hook = hook
        es == SelectSeq(log, Test)
    IN  [i \in 1..Len(es) |-> es[i].node]

\* C12: on every task the first hook is new, start follows new, every tick
\* is preprocess, process, postprocess, stop comes last and nothing follows
\* it (so new, start and stop are called once each and no per-tick hook
\* runs before start or after stop); stop visits the tasks in the reverse
\* of the order in which they were constructed, destinations of edges
\* before sources, and a shut down runtime has stopped every task.
C12_HookOrder ==
    /\ \A v \in NodesOf(config) :
           LET h == HooksOf(v)
           IN  /\ h # <<>> => h[1] = "new"
               /\ \A i \in 1..(Len(h) - 1) : h[i + 1] \in HookSucc(h[i])
    /\ LET made == NodesCalled("new")
           stopped == NodesCalled("stop")
       IN  /\ \A i \in DOMAIN stopped : stopped[i] = made[Len(made) + 1 - i]
           /\ \A j \in DOMAIN stopped : \A k \in OutEdges(config, stopped[j]) :
                  \E i \in 1..(j - 1) : stopped[i] = config.graph.edges[k + 1].node[2]
           /\ sched.phase = "done" =>
                  /\ Len(stopped) = Len(config.graph.nodes)
                  /\ \A v \in NodesOf(config) : HooksOf(v)[Len(HooksOf(v))] = "stop"

\* a graph of five tasks shut down after two ticks
C12_Witness ==
    /\ sched # None
    /\ sched.phase = "done"
    /\ sched.tick = 2
    /\ NodesCalled("new") = <<1, 2, 0, 3, 4>>
    /\ NodesCalled("stop") = <<4, 3, 0, 2, 1>>
    /\ HooksOf(3) = <<"new", "start", "preprocess", "process", "postprocess",
                      "preprocess", "process", "postprocess", "stop">>

\* the positions of the log holding a call of process that returned Err
Failures == {i \in DOMAIN log : log[i].hook = "process" /\ log[i].ret = "Err"}

\* the position, in the input tuple of node w, of the slot of edge k
InputPos(w, k) == CHOOSE p \in DOMAIN task_inputs(config, w) : task_inputs(config, w)[p] = k

C13_State ==
    \A i \in Failures :
        LET v == log[i].node
            t == log[i].tick
        IN  \* recorded against the monitor
            /\ \E r \in recorded : r.node = v /\ r.tick = t
            \* what the logger and the downstream tasks get for that tick is
            \* the cleared payload
            /\ \A j \in DOMAIN journal :
                   (journal[j].tick = t /\ journal[j].edge \in OutEdges(config, v))
                      => journal[j].payload = None
            /\ \A j \in DOMAIN log : \A k \in OutEdges(config, v) :
                   (/\ j > i
                    /\ log[j].hook = "process"
                    /\ log[j].tick = t
                    /\ log[j].node = config.graph.edges[k + 1].node[2])
                      => log[j].input[InputPos(log[j].node, k)] = None
            \* the sweep goes on: once tick t is over, every node has been
            \* processed in it
            /\ (sched.phase \in {"stop", "done"} \/ sched.tick > t) =>
                   \A w \in NodesOf(config) :
                       \E j \in DOMAIN log :
                           log[j].hook = "process" /\ log[j].tick = t /\ log[j].node = w

\* a call of process that returns Err leaves every outgoing slot cleared
\* and the worker in the sweep, about to call postprocess on the same node
C13_Step ==
    (Len(log') = Len(log) + 1 /\ Len(log') \in {i \in DOMAIN log' :
         log'[i].hook = "process" /\ log'[i].ret = "Err"})
       => /\ \A k \in OutEdges(config, log'[Len(log')].node) : slots'[k] = None
          /\ sched'.phase = "run"
          /\ sched'.hook = "postprocess"
          /\ sched'.pos = sched.pos
          /\ sched'.tick = sched.tick

\* C13: a process that returns Err is recorded against the monitor, the
\* slots of the task's outgoing edges are cleared, the logger and the
\* downstream tasks of that tick see the cleared payload, and the rest of
\* the sweep runs.
C13_ErrorClearsAndContinues == []C13_State /\ [][C13_Step]_vars

\* the subscriber sets its payload in one tick and fails in the next one
\* without touching its output; the error is not fatal, the handler is
\* processed with a cleared input and the sweep reaches the publisher
C13_Witness ==
    /\ pipeline # None
    /\ pipeline.name = "pong"
    /\ \E i \in Failures :
           /\ log[i].node = 2
           /\ log[i].tick = 1
           /\ log[i].ops = 0
           /\ \E r \in recorded : r.node = 2 /\ r.tick = 1 /\ r.decision = "degrade"
           /\ \E j \in DOMAIN journal :
                  journal[j].edge = 0 /\ journal[j].tick = 0 /\ journal[j].payload # None
           /\ \E j \in DOMAIN log :
                  /\ j > i
                  /\ log[j].hook = "process"
                  /\ log[j].tick = 1
                  /\ log[j].node = 1
                  /\ log[j].input = <<None>>
           /\ \E j \in DOMAIN log :
                  j > i /\ log[j].hook = "process" /\ log[j].tick = 1 /\ log[j].node = 0

\* the store a connection was declared with: None when the declaration has
\* no store
DeclaredStore(e) == pipeline.cnx[e + 1].store

\* the positions of the journal holding the slot of edge e
Logged(e) == {j \in DOMAIN journal : journal[j].edge = e}

\* the ticks in which process of node v was called and returned
Processed(v) ==
    {log[i].tick : i \in {j \in DOMAIN log :
        log[j].hook = "process" /\ log[j].node = v /\ log[j].ret # "panic"}}

\* C20: a connection declared without a store (in the text or through
\* connect) keeps no store in the configuration and its slot is handed to
\* the logger after every process of its source, once per tick and with the
\* payload the downstream task gets, exactly as the slot of a connection
\* declared with store: true; the slot of a connection declared with
\* store: false is never handed to the logger.
C20_MissingStoreLogs ==
    \A e \in EdgesOf(config) :
        /\ get_edge_weight(config, e)[1].store = DeclaredStore(e)
        /\ DeclaredStore(e) = Some(FALSE) => Logged(e) = {}
        /\ DeclaredStore(e) \in {None, Some(TRUE)} =>
               /\ {journal[j].tick : j \in Logged(e)} = Processed(SrcOf(e))
               /\ \A i \in Logged(e), j \in Logged(e) :
                      journal[i].tick = journal[j].tick => i = j
               /\ \A j \in Logged(e) : \A i \in DOMAIN log :
                      (/\ log[i].hook = "process"
                       /\ log[i].tick = journal[j].tick
                       /\ log[i].node = config.graph.edges[e + 1].node[2])
                          => log[i].input[InputPos(log[i].node, e)] = journal[j].payload

\* after a tick of a graph with a connection made by connect (edge 0), one
\* with store: true (edge 1) and one with store: false (edge 4): the first
\* two have been logged with their payload, the third has not
C20_Witness ==
    /\ pipeline # None
    /\ pipeline.name = "multisources"
    /\ sched.tick >= 1
    /\ DeclaredStore(0) = None
    /\ DeclaredStore(1) = Some(TRUE)
    /\ DeclaredStore(4) = Some(FALSE)
    /\ \E j \in Logged(0) : journal[j].tick = 0 /\ journal[j].payload = Some(43)
    /\ \E j \in Logged(1) : journal[j].tick = 0 /\ journal[j].payload = Some(25)
    /\ Logged(4) = {}
    /\ slots[4] = Some(<<43, 25>>)

-----------------------------------------------------------------------------
(* Properties of the nodes of a configuration *)

\* get_node finds a node exactly at the node-ids 0..n-1
C24_Dense ==
    \A c \in Configs : \A i \in 0..(MaxNodes + 1) :
        get_node(c, i) # None <=> i < Len(c.graph.nodes)

\* add_node returns the number of nodes there were and puts the new node
\* there; no step removes or renumbers a node
C24_Stable ==
    /\ (result'.op = "add_node" /\ config' # config) =>
           /\ result'.status.val = Len(config.graph.nodes)
           /\ Len(config'.graph.nodes) = Len(config.graph.nodes) + 1
           /\ \E id \in NodeIds :
                  get_node(config', result'.status.val) = Some(Node_new(id, "a"))
    /\ \A i \in NodesOf(config) : get_node(config', i) = get_node(config, i)

\* C24: the n-th node added gets node-id n, the node-ids are exactly 0..n-1
\* and get_node(i) keeps returning the i-th node added whatever is added or
\* connected later.
C24_AddNodeAppends == []C24_Dense /\ [][C24_Stable]_vars

\* a third node added after a connection was made between the first two
C24_Witness ==
    /\ result.op = "add_node"
    /\ result.status = Ok(2)
    /\ Len(config.graph.edges) >= 1
    /\ \A i \in 0..2 : get_node(config, i) # None

-----------------------------------------------------------------------------
(* Properties of the logging section *)

\* the logging section of the text at hand, None when it has none
LoggingText == IF text # None THEN OptField(text[1], "logging") ELSE None

\* a configuration read from a text has enable_task_logging true when the
\* logging section omits the field and the value written otherwise; a text
\* produced by serialize_ron omits the field exactly when it is true
C23_State ==
    (deserialized # None /\ LoggingText # None) =>
        /\ deserialized[1].logging # None
        /\ deserialized[1].logging[1].enable_task_logging =
               (IF Has(LoggingText[1], "enable_task_logging")
                THEN LoggingText[1]["enable_task_logging"] ELSE TRUE)
        /\ (~deserialized[1].logging[1].enable_task_logging) <=>
               (/\ Has(LoggingText[1], "enable_task_logging")
                /\ LoggingText[1]["enable_task_logging"] = FALSE)
        /\ (/\ result.op \in {"serialize_deserialize", "reserialize"}
            /\ Has(LoggingText[1], "enable_task_logging")) =>
               LoggingText[1]["enable_task_logging"] = FALSE

\* serialize_ron followed by deserialize_ron keeps the value
C23_Step ==
    (/\ result'.op = "reserialize"
     /\ deserialized # None
     /\ deserialized[1].logging # None) =>
        /\ deserialized' # None
        /\ deserialized'[1].logging # None
        /\ deserialized'[1].logging[1].enable_task_logging =
               deserialized[1].logging[1].enable_task_logging
        /\ Has(LoggingText'[1], "enable_task_logging") <=>
               (~deserialized[1].logging[1].enable_task_logging)

\* C23: enable_task_logging is true when the logging section omits it,
\* false only when it is written as false, and serialize_ron followed by
\* deserialize_ron keeps either value, the text omitting the field when it
\* is true.
C23_EnableTaskLoggingDefault == []C23_State /\ [][C23_Step]_vars

\* a section without the field, read as true, written again without the
\* field and read as true again
C23_Witness ==
    /\ result.op = "reserialize"
    /\ deserialized # None
    /\ LoggingText # None
    /\ ~Has(LoggingText[1], "enable_task_logging")
    /\ Has(LoggingText[1], "slab_size_mib")
    /\ deserialized[1].logging[1].enable_task_logging

\* a section with enable_task_logging: false, read as false, written again
\* with the field and read as false again
C23_WitnessFalse ==
    /\ result.op = "reserialize"
    /\ deserialized # None
    /\ LoggingText # None
    /\ Has(LoggingText[1], "enable_task_logging")
    /\ ~deserialized[1].logging[1].enable_task_logging

-----------------------------------------------------------------------------
(* CuConfig::render: the dot description of the graph, as the sequence of  *)
(* the node blocks followed by the sequence of the edge lines.             *)

\* html_escape::encode_text on the message types at hand
encode_text(s) ==
    IF s = "Vec<u8>" THEN "Vec&lt;u8&gt;"
    ELSE IF s = "a&b" THEN "a&amp;b"
    ELSE s

\* the fill colour chosen from is_src alone
fillcolor_src_only(c, index) ==
    IF get_dst_edges(c, index) = <<>> THEN "lightgreen" ELSE "lightgrey"

\* is_src / is_sink and the fillcolor line written for node `index`
fillcolor(c, index) ==
    LET is_src == get_dst_edges(c, index) = <<>>
        is_sink == get_src_edges(c, index) = <<>>
    IN  IF is_src THEN "lightgreen"
        ELSE IF is_sink THEN "lightblue"
        ELSE "lightgrey"

\* for index in self.graph.node_indices(): the block of one node;
\* node.get_type() unwraps the type
render_node(c, index) ==
    LET node == c.graph.nodes[index + 1].weight
    IN  IF node.type_ = None THEN Panic("called Option::unwrap() on a None value")
        ELSE Ok([index |-> index,
                 fillcolors |-> <<fillcolor(c, index)>>,
                 id |-> node.id,
                 type |-> node.type_[1],
                 config |-> node.config])

\* for edge in self.graph.edge_indices(): the line of one edge
render_edge(c, edge) ==
    [src |-> c.graph.edges[edge + 1].node[1],
     dst |-> c.graph.edges[edge + 1].node[2],
     label |-> encode_text(c.graph.edges[edge + 1].weight.msg)]

\* CuConfig::render
render(c) ==
    IF \E i \in NodesOf(c) : render_node(c, i).tag = "panic"
    THEN Panic("called Option::unwrap() on a None value")
    ELSE Ok([nodes |-> [i \in 1..Len(c.graph.nodes) |-> render_node(c, i - 1).val],
             edges |-> [k \in 1..Len(c.graph.edges) |-> render_edge(c, k - 1)]])

\* C26: render writes for every node one block with one fill colour, green
\* for a node without incoming edges (with or without outgoing ones), blue
\* for a node with incoming and without outgoing edges, grey for a node
\* with both, and then one edge line per connection in edge-id order with
\* the node-ids of its endpoints and its msg as label.
C26_RenderColoursAndEdges ==
    \A c \in Configs :
        /\ render(c).tag = "Ok"
        /\ LET out == render(c).val
           IN  /\ Len(out.nodes) = Len(c.graph.nodes)
               /\ \A v \in NodesOf(c) :
                      /\ out.nodes[v + 1].index = v
                      /\ Len(out.nodes[v + 1].fillcolors) = 1
                      /\ out.nodes[v + 1].fillcolors[1] =
                             (IF InEdges(c, v) = {} THEN "lightgreen"
                              ELSE IF OutEdges(c, v) = {} THEN "lightblue"
                              ELSE "lightgrey")
               /\ Len(out.edges) = Len(c.graph.edges)
               /\ \A k \in EdgesOf(c) :
                      /\ out.edges[k + 1].src = c.graph.edges[k + 1].node[1]
                      /\ out.edges[k + 1].dst = c.graph.edges[k + 1].node[2]
                      /\ c.graph.nodes[out.edges[k + 1].src + 1].weight.id =
                             c.graph.edges[k + 1].weight.src
                      /\ c.graph.nodes[out.edges[k + 1].dst + 1].weight.id =
                             c.graph.edges[k + 1].weight.dst
                      /\ out.edges[k + 1].label = c.graph.edges[k + 1].weight.msg

\* a chain of three nodes: a source, an intermediate node and a sink
C26_Witness ==
    /\ Len(config.graph.nodes) = 3
    /\ Len(config.graph.edges) = 2
    /\ render(config).tag = "Ok"
    /\ {render(config).val.nodes[i].fillcolors[1] : i \in 1..3} =
           {"lightgreen", "lightgrey", "lightblue"}

\* a graph with a node that has no edge at all next to a source and a sink
C26_WitnessIsolated ==
    /\ Len(config.graph.nodes) = 3
    /\ \E v \in NodesOf(config) : InEdges(config, v) = {} /\ OutEdges(config, v) = {}
    /\ \E v \in NodesOf(config) : fillcolor(config, v) = "lightblue"

-----------------------------------------------------------------------------
(* Properties of the stream's use of its pool *)

\* the caller holds no clone of a handle
NoClone == \A b \in DOMAIN held : held[b] = 0

AllocFailed == Err("Failed to allocate buffer")

\* the caller makes a call that queues: start() or next()
QueueingCall ==
    \/ \E fault \in 0..BufCount : Start(fault)
    \/ \E fault \in BOOLEAN : NextCall(fault)

\* with no clone outside, the buffers in use are those of the arena, at
\* most buf_count of the buf_count + 1, so that allocate has one to give
C27_State ==
    (stream # None /\ NoClone) =>
        /\ Cardinality(Live(stream.memory_pool)) <= BufCount
        /\ allocate(stream.memory_pool).ret # None

\* and no start() or next() made in such a state fails to allocate
C27_Step ==
    (NoClone /\ QueueingCall) => stream_result'.status # AllocFailed

\* C27: while the caller keeps no clone of the handles next() returns, at
\* most buf_count buffers of the pool are in use whenever queue() allocates
\* and no start() or next() fails with Failed to allocate buffer.
C27_PoolSuffices == []C27_State /\ [][C27_Step]_vars

\* next() has queued the slot start() left out and has got it back filled:
\* every slot of the arena holds a buffer, buf_count buffers are in use and
\* no clone is held
C27_Witness ==
    /\ NoClone
    /\ stream_pc = "idle"
    /\ stream_result.op = "next"
    /\ stream_result.status = Ok(0)
    /\ \A i \in ArenaIndices(stream) : stream.arena[i].handle # None
    /\ Cardinality(Live(stream.memory_pool)) = BufCount

\* active changes only by a successful start() (to true) or a successful
\* stop() (to false), and each of them sets it
C28_Active ==
    /\ (stream'.active /\ ~stream.active) =>
           (stream_result'.op = "start" /\ stream_result'.status.tag = "Ok")
    /\ (~stream'.active /\ stream.active) =>
           (stream_result'.op = "stop" /\ stream_result'.status.tag = "Ok")
    /\ ((\E fault \in 0..BufCount : Start(fault)) /\ stream_result'.status.tag = "Ok")
           => stream'.active
    /\ ((\E fault \in BOOLEAN : Stop(fault)) /\ stream_result'.status.tag = "Ok")
           => ~stream'.active

\* next() on a stream that is not active returns an error and leaves the
\* stream (arena, pool, arena_last_freed_up_index) and the device alone
C28_NextInactive ==
    ((\E fault \in BOOLEAN : NextCall(fault)) /\ ~stream.active) =>
        /\ stream_result'.status = Err("Stream is not active. Call start() first.")
        /\ stream' = stream
        /\ kernel' = kernel
        /\ stream_pc' = "idle"

\* next() that cannot allocate leaves the arena and the device alone
C28_NextExhausted ==
    ((\E fault \in BOOLEAN : NextCall(fault)) /\ stream_result'.status = AllocFailed) =>
        /\ stream'.arena = stream.arena
        /\ stream'.arena_last_freed_up_index = stream.arena_last_freed_up_index
        /\ Live(stream'.memory_pool) = Live(stream.memory_pool)
        /\ kernel' = kernel

\* queue(index) on a pool with no free buffer returns the error and changes
\* nothing, whatever the index
C28_QueueExhausted ==
    (stream # None /\ allocate(stream.memory_pool).ret = None) =>
        \A index \in ArenaIndices(stream), fault \in BOOLEAN :
            queue(stream, kernel, index, fault) =
                [stream |-> stream, kernel |-> kernel, ret |-> AllocFailed]

\* C28: the stream is active exactly from a successful start() to the next
\* successful stop(); next() on a stream that is not active, and queue() on
\* an exhausted pool, return an error and change neither the arena, the
\* pool, arena_last_freed_up_index nor the device.
C28_InactiveAndExhausted ==
    /\ []C28_QueueExhausted
    /\ [][C28_Active /\ C28_NextInactive /\ C28_NextExhausted]_vars

\* the caller holds a clone of a frame whose slot has been queued again, the
\* arena is full, and next() has failed to allocate
C28_Witness ==
    /\ stream_result.op = "next"
    /\ stream_result.status = AllocFailed
    /\ ~NoClone
    /\ stream.active
    /\ allocate(stream.memory_pool).ret = None

\* next() after a successful stop()
C28_WitnessInactive ==
    /\ stream_result.op = "next"
    /\ stream_result.status = Err("Stream is not active. Call start() first.")
    /\ \E i \in ArenaIndices(stream) : stream.arena[i].handle # None

-----------------------------------------------------------------------------
(* The Livox frame parser (components/sources/cu_livox/src/parser.rs).     *)
(* A byte slice is a sequence of bytes; data[i] of the code is the         *)
(* element i + 1 of the sequence.                                          *)

\* #[repr(C, packed)] LidarHeader: version, slot_id, lidar_id, reserved (u8),
\* status_code (u32), timestamp_type, data_type (u8), timestamp (u64)
LidarHeader_size == 1 + 1 + 1 + 1 + 4 + 1 + 1 + 8

\* #[repr(C, packed)] PointType2: x, y, z (i32), reflectivity, tag (u8)
PointType2_size == 4 + 4 + 4 + 1 + 1

MAX_POINTS_TYPE2 == 96

\* size_of::<LidarFrame>(): the header and the array of points, packed
DATA_FRAME_TYPE2_SIZE == LidarHeader_size + MAX_POINTS_TYPE2 * PointType2_size

\* the offset of header.data_type in the packed frame
data_type_offset == 1 + 1 + 1 + 1 + 4 + 1

InvalidFrame(reason, found) ==
    Err([error |-> "InvalidFrame", reason |-> reason, found |-> found])

\* parse_frame testing the length before the protocol version
parse_frame_length_first(data) ==
    IF Len(data) < DATA_FRAME_TYPE2_SIZE
    THEN InvalidFrame("Frame too short", Len(data))
    ELSE IF Len(data) > DATA_FRAME_TYPE2_SIZE
    THEN InvalidFrame("Frame too long", Len(data))
    ELSE IF data[1] # 5
    THEN InvalidFrame("Not a Livox SDK protocol V1 frame", data[1])
    ELSE IF data[data_type_offset + 1] # 2
    THEN InvalidFrame("Point Cloud Data Type 2 expected", data[data_type_offset + 1])
    ELSE Ok([version |-> data[1], data_type |-> data[data_type_offset + 1],
             len |-> Len(data)])

\* parse_frame(data: &[u8]): data[0] is read first and panics on an empty
\* slice; the frame returned is a view of the bytes
parse_frame(data) ==
    IF Len(data) = 0
    THEN Panic("index out of bounds: the len is 0 but the index is 0")
    ELSE IF data[1] # 5
    THEN InvalidFrame("Not a Livox SDK protocol V1 frame", data[1])
    ELSE IF Len(data) < DATA_FRAME_TYPE2_SIZE
    THEN InvalidFrame("Frame too short", Len(data))
    ELSE IF Len(data) > DATA_FRAME_TYPE2_SIZE
    THEN InvalidFrame("Frame too long", Len(data))
    ELSE IF data[data_type_offset + 1] # 2
    THEN InvalidFrame("Point Cloud Data Type 2 expected", data[data_type_offset + 1])
    ELSE Ok([version |-> data[1], data_type |-> data[data_type_offset + 1],
             len |-> Len(data)])

\* the datagrams tried: lengths around the boundaries of the checks, with
\* every combination of first byte and data_type byte, the other bytes zero
PacketLens == {0, 1, 9, 10, 18, 1361, 1362, 1363}
PacketBytes == {0, 2, 5, 255}

Packet(len, version, data_type) ==
    [i \in 1..len |-> IF i = 1 THEN version
                      ELSE IF i = data_type_offset + 1 THEN data_type
                      ELSE 0]

Packets ==
    {Packet(len, v, t) : len \in PacketLens, v \in PacketBytes, t \in PacketBytes}

FrameInit ==
    /\ ConfigInit
    /\ NoPool
    /\ NoStream
    /\ NoHarness
    /\ NoRuntime
    /\ packet_data \in Packets
    /\ parse_result = None

\* let packet = parse_frame(&packet_data);
ParseFrame ==
    /\ parse_result = None
    /\ parse_result' = Some(parse_frame(packet_data))
    /\ UNCHANGED packet_data

\* the next datagram arrives
Receive(data) ==
    /\ parse_result # None
    /\ parse_result[1].tag # "panic"
    /\ packet_data' = data
    /\ parse_result' = None

notParserVars == <<configVars, poolVars, streamVars, taskVars, schedVars>>

FrameNext ==
    \/ ParseFrame /\ UNCHANGED notParserVars
    \/ (\E data \in Packets : Receive(data)) /\ UNCHANGED notParserVars

FrameSpec == FrameInit /\ [][FrameNext]_vars

\* the check of parse_frame that a slice fails first, "none" if it passes
\* them all
FirstFailure(data) ==
    IF data[1] # 5 THEN "Not a Livox SDK protocol V1 frame"
    ELSE IF Len(data) < 1362 THEN "Frame too short"
    ELSE IF Len(data) > 1362 THEN "Frame too long"
    ELSE IF data[10] # 2 THEN "Point Cloud Data Type 2 expected"
    ELSE "none"

\* C29: on a non-empty slice parse_frame returns Ok exactly when the slice
\* has 1362 bytes, starts with 0x05 and has 0x02 at offset 9; otherwise it
\* returns InvalidFrame for the first failing check in the order protocol
\* version, too short, too long, data type.
C29_ParseFrameChecks ==
    (parse_result # None /\ Len(packet_data) > 0) =>
        /\ parse_result[1].tag = "Ok" <=>
               (Len(packet_data) = 1362 /\ packet_data[1] = 5 /\ packet_data[10] = 2)
        /\ parse_result[1].tag # "Ok" =>
               /\ parse_result[1].tag = "Err"
               /\ parse_result[1].msg.error = "InvalidFrame"
               /\ parse_result[1].msg.reason = FirstFailure(packet_data)

\* a slice of the wrong length whose first byte is not 0x05 either: the
\* protocol version is what is reported
C29_Witness ==
    /\ parse_result # None
    /\ Len(packet_data) = 1361
    /\ packet_data[1] = 2
    /\ parse_result[1] = InvalidFrame("Not a Livox SDK protocol V1 frame", 2)

\* a frame of the size and with the header bytes of test_tele15_packet
C29_WitnessOk ==
    /\ parse_result # None
    /\ Len(packet_data) = 1362
    /\ parse_result[1].tag = "Ok"

\* C30: on every slice shorter than the frame size, the empty one
\* included, parse_frame returns Err(InvalidFrame) and does not panic.
C30_TotalOnShortInput ==
    (parse_result # None /\ Len(packet_data) < 1362) =>
        /\ parse_result[1].tag = "Err"
        /\ parse_result[1].msg.error = "InvalidFrame"

-----------------------------------------------------------------------------
(* Node parameters: nodes are added to a configuration, parameters are set *)
(* on them, the configuration is written and read back, and parameters are *)
(* read from the configuration and from the one read back, as in           *)
(* test_serialize_with_params.                                             *)

MaxParamNodes == 2
MaxParams == 2

ParamNodeIds == <<"copper-camera", "copper-lidar", "copper-imu">>

ParamKeys == {"resolution-height", "fps"}

\* 1080.into() and the other values handed to set_param
ParamValues ==
    {Value_from_i32(1080), Value_from_i32(-5), Value_from_unsigned(4),
     Value_from_f64(15), Value_from_String("x")}

\* a task list whose one task carries a parameter written by hand
ParamDocs ==
    {ConfigDoc(<<("id" :> "copper-camera") @@ ("type" :> Some("camerapkg::Camera"))
                   @@ ("config" :> Some(k :> l))>>, <<>>, None, None) :
        k \in ParamKeys,
        l \in {Lit("bool", 0, "", TRUE), Lit("int", 300, "", FALSE)}}

\* the number of parameters set in the configuration
RECURSIVE ParamCount(_, _)
ParamCount(c, i) ==
    IF i > Len(c.graph.nodes) THEN 0
    ELSE (IF c.graph.nodes[i].weight.config = None THEN 0
          ELSE Cardinality(DOMAIN c.graph.nodes[i].weight.config[1]))
           + ParamCount(c, i + 1)

\* config.add_node(Node::new(id, "camerapkg::Camera"))
AddParamNode ==
    /\ Len(config.graph.nodes) < MaxParamNodes
    /\ \E r \in {add_node(config, Node_new(ParamNodeIds[Len(config.graph.nodes) + 1],
                                            "camerapkg::Camera"))} :
           /\ config' = r.cfg
           /\ result' = [op |-> "add_node", status |-> Ok(r.ret)]
    /\ text' = None
    /\ deserialized' = None

\* config.get_node_mut(node_id).unwrap().set_param(key, value)
SetParam(node_id, key, value) ==
    /\ get_node(config, node_id) # None
    /\ ParamCount(config, 1) < MaxParams
    /\ config' = [config EXCEPT !.graph.nodes[node_id + 1].weight =
                                    set_param(@, key, value)]
    /\ result' = [op |-> "set_param", status |-> Ok(0)]
    /\ text' = None
    /\ deserialized' = None

\* the configuration a parameter is read from
ParamSource(on) == IF on = "config" THEN Some(config) ELSE deserialized

\* cfg.get_node(node_id).unwrap().get_param::<T>(key)
GetParam(on, node_id, key, type) ==
    /\ ParamSource(on) # None
    /\ get_node(ParamSource(on)[1], node_id) # None
    /\ result' = [op |-> "get_param",
                  status |-> get_param(get_node(ParamSource(on)[1], node_id)[1],
                                       key, type),
                  on |-> on, node_id |-> node_id, key |-> key, type |-> type]
    /\ UNCHANGED <<config, text, deserialized>>

ParamNext ==
    \/ AddParamNode /\ UNCHANGED runtimeVars
    \/ (\E i \in 0..(MaxParamNodes - 1), k \in ParamKeys, v \in ParamValues :
          SetParam(i, k, v)) /\ UNCHANGED runtimeVars
    \/ SerializeDeserialize /\ UNCHANGED runtimeVars
    \/ (\E doc \in ParamDocs : DeserializeRon(doc)) /\ UNCHANGED runtimeVars
    \/ (\E on \in {"config", "deserialized"}, i \in 0..(MaxParamNodes - 1),
           k \in ParamKeys, t \in HostTypes : GetParam(on, i, k, t))
          /\ UNCHANGED runtimeVars

ParamSpec == Init /\ [][ParamNext]_vars

\* the parameter read by the last get_param, None when the node has no
\* config or the key is not set
ParamRead ==
    LET node == get_node(ParamSource(result.on)[1], result.node_id)[1]
    IN  IF node.config = None THEN None
        ELSE IF result.key \notin DOMAIN node.config[1] THEN None
        ELSE Some(node.config[1][result.key])

\* the kind of the value is the kind asked for
KindsMatch(type, v) ==
    \/ type = "bool" /\ v.variant = "Bool"
    \/ type \in IntTargets /\ v.variant = "Number" /\ v.kind \in IntKinds
    \/ type = "f64" /\ v.variant = "Number" /\ v.kind \in FloatKinds
    \/ type = "String" /\ v.variant = "String"

\* C21: get_param yields a value exactly when the stored value is of the
\* kind asked for (a boolean from a boolean, an integer from an integer
\* number, a float from a float number, a string from a string), fails for
\* every other combination, and yields None when the key is absent.
C21_ExtractionOnlyWhenKindsMatch ==
    result.op = "get_param" =>
        IF ParamRead = None THEN result.status = Ok(None)
        ELSE IF KindsMatch(result.type, ParamRead[1])
             THEN result.status.tag = "Ok" /\ result.status.val # None
             ELSE result.status.tag = "panic"

\* the configuration read back is the one written from config
RoundTripped == deserialized # None /\ text = Some(serialize_ron(config))

\* C22: an integer v set with set_param is read back as v, after
\* serialize_ron and deserialize_ron, by every integer type that can
\* represent v, and a key that was not set reads as None.
C22_ParamsSurviveRoundTrip ==
    RoundTripped =>
        \A i \in 0..(Len(config.graph.nodes) - 1), k \in ParamKeys :
            LET before == get_node(config, i)[1]
                after == get_node(deserialized[1], i)[1]
            IN  IF before.config = None \/ k \notin DOMAIN before.config[1]
                THEN \A t \in HostTypes : get_param(after, k, t) = Ok(None)
                ELSE LET v == before.config[1][k]
                     IN  (v.variant = "Number" /\ v.kind \in IntKinds) =>
                            \A t \in IntTargets :
                                Fits(v.n, t) =>
                                    get_param(after, k, t) =
                                        Ok(Some(Host(t, v.n, "", FALSE)))

\* 1080 was set as an i32, the configuration was written and read back,
\* where the number is a U16, and get_param::<i32> returned 1080
C22_Witness ==
    /\ RoundTripped
    /\ result.op = "get_param" /\ result.on = "deserialized"
    /\ result.node_id = 0 /\ result.key = "resolution-height"
    /\ result.type = "i32"
    /\ get_node(config, 0)[1].config # None
    /\ "resolution-height" \in DOMAIN get_node(config, 0)[1].config[1]
    /\ get_node(config, 0)[1].config[1]["resolution-height"] = Value_from_i32(1080)
    /\ get_node(deserialized[1], 0)[1].config[1]["resolution-height"]
           = Number("U16", 1080)
    /\ result.status = Ok(Some(Host("i32", 1080, "", FALSE)))

\* a key that was never set was read from the configuration read back
C22_WitnessUnset ==
    /\ RoundTripped
    /\ result.op = "get_param" /\ result.on = "deserialized"
    /\ result.key = "fps"
    /\ get_node(config, result.node_id)[1].config # None
    /\ "fps" \notin DOMAIN get_node(config, result.node_id)[1].config[1]
    /\ result.status = Ok(None)

-----------------------------------------------------------------------------
(* Loading texts that are no configuration, as in                          *)
(* test_deserialization_error.                                             *)

\* ( tasks: (), cnx: [], monitor: (type: "ExampleMonitor", ) ): the tasks
\* are a tuple where a list is required, found at line 1, column 10
TupleTasksDoc ==
    ("cnx" :> <<>>) @@ ("monitor" :> Some("type" :> "ExampleMonitor"))
      @@ ("syntax_error" :> SpannedError("Expected opening [", <<1, 10>>))

\* texts that depart from the grammar at some line and column, and texts
\* that end without their tasks or without their cnx
MalformedDocs ==
    {TupleTasksDoc}
      \cup {("tasks" :> tasks)
               @@ ("syntax_error" :> SpannedError("Expected opening [", <<l, c>>)) :
               tasks \in SeqsUpTo(NodeDocs, 1), l \in 1..2, c \in {1, 19}}
      \cup {("tasks" :> tasks) @@ ("cnx" :> <<>>)
               @@ ("syntax_error" :> SpannedError("Unexpected end of RON", <<l, c>>)) :
               tasks \in SeqsUpTo(NodeDocs, 1), l \in 1..2, c \in {1, 19}}
      \cup {("cnx" :> <<>>) @@ ("end" :> <<l, 12>>) : l \in 1..2}
      \cup {("tasks" :> <<>>) @@ ("end" :> <<l, 14>>) : l \in 1..2}

\* the text is no configuration
Malformed(doc) ==
    Has(doc, "syntax_error") \/ ~Has(doc, "tasks") \/ ~Has(doc, "cnx")

ParseNext ==
    \/ (\E doc \in MalformedDocs : DeserializeRon(doc)) /\ UNCHANGED runtimeVars
    \/ (\E doc \in SettingsDocs : DeserializeRon(doc)) /\ UNCHANGED runtimeVars
    \/ (\E doc \in MalformedDocs : ReadConfigurationStr(doc))
          /\ UNCHANGED runtimeVars
    \/ (\E doc \in SettingsDocs : ReadConfigurationStr(doc))
          /\ UNCHANGED runtimeVars

ParseSpec == Init /\ [][ParseNext]_vars

\* what the parser reports for a malformed text
ParseError(doc) ==
    IF Has(doc, "syntax_error") THEN doc["syntax_error"]
    ELSE SpannedError(IF ~Has(doc, "tasks") THEN "missing field tasks"
                      ELSE "missing field cnx", doc["end"])

\* C25: a malformed text never yields a CuConfig: the load fails, the
\* failure reports the parse error and the position at which it was found,
\* and it is fatal to the load; a text that follows the grammar is not
\* reported as a syntax error.
C25_MalformedNeverLoads ==
    text # None =>
        IF Malformed(text[1])
        THEN /\ deserialized = None
             /\ result.status.tag = "panic"
             /\ result.status.msg.text = "Syntax Error in config"
             /\ result.status.msg.code = ParseError(text[1]).code
             /\ result.status.msg.position = ParseError(text[1]).position
        ELSE result.status.tag # "panic"

\* the text of test_deserialization_error was handed to deserialize_ron,
\* which panicked with "Expected opening [" at position 1:10
C25_Witness ==
    /\ text = Some(TupleTasksDoc)
    /\ result.op = "deserialize_ron"
    /\ deserialized = None
    /\ result.status =
           Panic([text |-> "Syntax Error in config",
                  code |-> "Expected opening [", position |-> <<1, 10>>])

\* a text without its tasks was handed to read_configuration_str
C25_WitnessMissingField ==
    /\ text # None /\ ~Has(text[1], "tasks") /\ ~Has(text[1], "syntax_error")
    /\ result.op = "read_configuration_str"
    /\ result.status.tag = "panic"
    /\ result.status.msg.code = "missing field tasks"

====
